---- MODULE Spec2Model ----
(***************************************************************************)
(* The session coordinator of mod-ui (src/mod/host.py): the Host object,   *)
(* its instance-id mapper, the write queue towards the audio engine, the   *)
(* actuator rings and the HMI handlers.                                    *)
(*                                                                         *)
(* Every method of the source is an operator from a host record (one field *)
(* per attribute of the Host object, plus the environment it talks to) to  *)
(* the host record after the call; an action applies one handler of the    *)
(* event loop to the current state and commits the result.  Callbacks and  *)
(* closures are stacks of frames: the head frame is the closure to run,    *)
(* the tail is the callback that closure was given.                        *)
(*                                                                         *)
(* Floats are integers (0.0 -> 0, 1.0 -> 1), None is a sentinel of the     *)
(* field's type, a graph path "/graph/x/p" is the pair                     *)
(* <<"/graph/x", "p">> (what rsplit("/", 1) splits it into).               *)
(***************************************************************************)
EXTENDS Integers, Sequences, FiniteSets, TLC

VARIABLES
    plugins,              \* self.plugins: instance id -> plugin record
    connections,          \* self.connections: list of (source, target)
    mapper,               \* self.mapper: InstanceIdMapper
    addressings,          \* self.addressings: actuator uri -> ring
    queue,                \* self._queue
    idle,                 \* self._idle
    writesock,            \* self.writesock: stream id, 0 is None
    readsock,             \* self.readsock: stream id, 0 is None
    crashed,              \* self.crashed
    bank_id,              \* self.bank_id
    pedalboard_path,      \* self.pedalboard_path
    pedalboard_modified,  \* self.pedalboard_modified
    next_hmi_pedalboard,  \* self.next_hmi_pedalboard: <<bank, pb>>, <<>> is None
    hmi_initialized,      \* self.hmi.initialized
    midiports,            \* self.midiports: the MIDI devices of the session
    current_tuner_port,   \* self.current_tuner_port
    jack_midi,            \* the MIDI hardware ports JACK has at the moment
    saved_bundle,         \* the pedalboard bundle the last save() wrote
    jack_tuner,           \* the capture port JACK feeds the tuner from, 0 is none
    streams,              \* the write streams ever opened, by stream id
    rlive,                \* the read streams that are open
    hmiq,                 \* HMI calls awaiting their acknowledgement
    engine,               \* the instance numbers the engine holds
    sent,                 \* requests written to a write stream by this step
    msgs,                 \* msg_callback broadcasts of this step
    cbs,                  \* completion callbacks run by this step
    delivered,            \* responses handed to callbacks by this step
    hmicalls,             \* HMI calls issued by this step
    lastreq,              \* history: the last HMI load request that was taken
                          \* or stashed: <<bank, pedalboard, 1 if stashed>>
    reloaded,             \* history: the last two bundles handed to load()
    txlog,                \* history: the stamped requests transmitted so far
    nsub,                 \* history: number of stamped requests submitted
    nclose,               \* history: number of write-socket closes
    trace_on              \* whether this behaviour keeps the history

vars == <<plugins, connections, mapper, addressings, queue, idle, writesock,
          readsock, crashed, bank_id, pedalboard_path, pedalboard_modified,
          next_hmi_pedalboard, hmi_initialized, midiports, current_tuner_port,
          jack_midi, saved_bundle, jack_tuner, streams, rlive, hmiq, engine,
          sent, msgs, cbs, delivered, hmicalls, lastreq, reloaded, txlog, nsub,
          nclose, trace_on>>

----------------------------------------------------------------------------
(* Bounds of the model *)

MaxStreams == 2      \* write streams opened in one behaviour
MaxReq == 3          \* stamped requests submitted in one behaviour
MaxQueue == 1        \* an API call is taken while the queue is shorter
MaxHmi == 1          \* an API call is taken while fewer HMI calls are pending
MaxRing == 3         \* address is called while every ring is shorter
MaxEdges == 2        \* load is called while connections is shorter

----------------------------------------------------------------------------
(* Values *)

NoValue == -1                      \* None as a port or output value
NoPath == <<"", "">>
NoJack == [kind |-> "", id |-> -1, sym |-> ""]
NoCC == <<-1, -1, 0, 1>>           \* (-1,-1,0.0,1.0)
NoBypassCC == <<-1, -1>>

\* A closure: its name and the variables it captured.
Frame0 == [k |-> "", inst |-> "", iid |-> -1, sym |-> "", uri |-> "",
           act |-> "", old |-> "", lst |-> <<>>, pa |-> NoPath, pb |-> NoPath,
           n1 |-> 0, n2 |-> 0, label |-> "", steps |-> 0]

\* A call of the HMI protocol and the callback it was given.
HmiCall0 == [call |-> "", iid |-> -1, sym |-> "", act |-> "", val |-> 0,
             num |-> 0, index |-> 0, label |-> "", type |-> 0, cb |-> <<>>]

\* The callback handed to an API call by its caller.
UserCb(name) == <<[Frame0 EXCEPT !.k = "user", !.sym = name]>>

\* A queue entry (msg, callback, datatype); id, subws and subcl stamp it
\* with its submission (history only).
Req0 == [cmd |-> "", iid |-> -1, sym |-> "", val |-> 0, uri |-> "",
         a |-> NoJack, b |-> NoJack, cc |-> <<>>, dt |-> "int", cb |-> <<>>,
         id |-> 0, subws |-> 0, subcl |-> 0]

NoReq == Req0

Stream0 == [state |-> "unused", wire |-> <<>>, rd |-> NoReq, ws |-> FALSE]

RECURSIVE SetToSeq(_)
SetToSeq(S) ==
    IF S = {} THEN <<>>
    ELSE LET x == CHOOSE y \in S : TRUE IN <<x>> \o SetToSeq(S \ {x})

RECURSIVE IntSetToSeq(_)
IntSetToSeq(S) ==
    IF S = {} THEN <<>>
    ELSE LET x == CHOOSE y \in S : \A z \in S : y <= z
         IN <<x>> \o IntSetToSeq(S \ {x})

Range(s) == {s[i] : i \in 1..Len(s)}

RECURSIVE Remove(_, _)
\* list.remove(x): drops the first occurrence
Remove(s, x) ==
    IF s = <<>> THEN <<>>
    ELSE IF Head(s) = x THEN Tail(s) ELSE <<Head(s)>> \o Remove(Tail(s), x)

\* list.pop(i), 0-based
PopAt(s, i) == SubSeq(s, 1, i) \o SubSeq(s, i + 2, Len(s))

\* list.index(x), 0-based, of an element the list holds
IndexOf(s, x) == (CHOOSE i \in 1..Len(s) : s[i] = x /\ \A j \in 1..(i-1) : s[j] # x) - 1

\* Python's % for a positive modulus
PyMod(a, n) == a % n

----------------------------------------------------------------------------
(* The host record *)

H == [plugins |-> plugins, connections |-> connections, mapper |-> mapper,
      addressings |-> addressings, queue |-> queue, idle |-> idle,
      writesock |-> writesock, readsock |-> readsock, crashed |-> crashed,
      bank_id |-> bank_id, pedalboard_path |-> pedalboard_path,
      pedalboard_modified |-> pedalboard_modified,
      next_hmi_pedalboard |-> next_hmi_pedalboard,
      hmi_initialized |-> hmi_initialized, midiports |-> midiports,
      current_tuner_port |-> current_tuner_port, jack_midi |-> jack_midi,
      saved_bundle |-> saved_bundle, jack_tuner |-> jack_tuner,
      streams |-> streams,
      rlive |-> rlive, hmiq |-> hmiq, engine |-> engine, lastreq |-> lastreq,
      reloaded |-> reloaded, nsub |-> nsub, nclose |-> nclose,
      trace_on |-> trace_on,
      sent |-> <<>>, msgs |-> <<>>, cbs |-> <<>>, delivered |-> <<>>,
      hmicalls |-> <<>>, exc |-> FALSE]

TxEntry(e, cl) == [id |-> e.req.id, subws |-> e.req.subws, subcl |-> e.req.subcl,
                   stream |-> e.stream, txcl |-> cl]

Commit(r) ==
    /\ plugins' = r.plugins
    /\ connections' = r.connections
    /\ mapper' = r.mapper
    /\ addressings' = r.addressings
    /\ queue' = r.queue
    /\ idle' = r.idle
    /\ writesock' = r.writesock
    /\ readsock' = r.readsock
    /\ crashed' = r.crashed
    /\ bank_id' = r.bank_id
    /\ pedalboard_path' = r.pedalboard_path
    /\ pedalboard_modified' = r.pedalboard_modified
    /\ next_hmi_pedalboard' = r.next_hmi_pedalboard
    /\ hmi_initialized' = r.hmi_initialized
    /\ midiports' = r.midiports
    /\ current_tuner_port' = r.current_tuner_port
    /\ jack_midi' = r.jack_midi
    /\ saved_bundle' = r.saved_bundle
    /\ jack_tuner' = r.jack_tuner
    /\ streams' = r.streams
    /\ rlive' = r.rlive
    /\ hmiq' = r.hmiq
    /\ engine' = r.engine
    /\ sent' = r.sent
    /\ msgs' = r.msgs
    /\ cbs' = r.cbs
    /\ delivered' = r.delivered
    /\ hmicalls' = r.hmicalls
    /\ lastreq' = r.lastreq
    /\ reloaded' = r.reloaded
    /\ nsub' = r.nsub
    /\ nclose' = r.nclose
    /\ txlog' = IF trace_on
                THEN txlog \o [i \in 1..Len(r.sent) |-> TxEntry(r.sent[i], r.nclose)]
                ELSE txlog
    /\ trace_on' = trace_on

\* msg_callback(msg)
msg_callback(h, m) == [h EXCEPT !.msgs = Append(@, m)]

RECURSIVE Call(_, _, _)

----------------------------------------------------------------------------
(* InstanceIdMapper *)

MapperClear == [last_id |-> 0, id_map |-> <<>>, instance_map |-> <<>>]

\* the id get_id(instance) returns
get_id(m, instance) ==
    IF instance \in DOMAIN m.instance_map THEN m.instance_map[instance]
    ELSE m.last_id

\* the mapper after get_id(instance)
get_id_mapper_reusing(m, instance) ==
    IF instance \in DOMAIN m.instance_map THEN m
    ELSE [last_id |-> m.last_id,
          id_map |-> (m.last_id :> instance) @@ m.id_map,
          instance_map |-> (instance :> m.last_id) @@ m.instance_map]

get_id_mapper(m, instance) ==
    IF instance \in DOMAIN m.instance_map THEN m
    ELSE [last_id |-> m.last_id + 1,
          id_map |-> (m.last_id :> instance) @@ m.id_map,
          instance_map |-> (instance :> m.last_id) @@ m.instance_map]

\* whether get_id_without_creating(instance) returns (else KeyError)
knows_instance(m, instance) == instance \in DOMAIN m.instance_map

get_id_without_creating(m, instance) == m.instance_map[instance]

\* whether get_instance(id) returns (else KeyError)
knows_id(m, id) == id \in DOMAIN m.id_map

get_instance(m, id) == m.id_map[id]

----------------------------------------------------------------------------
(* EngineLink: the write queue *)

RECURSIVE process_write_queue(_)
process_write_queue(h) ==
    IF h.queue = <<>> THEN [h EXCEPT !.idle = TRUE]
    ELSE IF h.writesock = 0 THEN process_write_queue([h EXCEPT !.queue = Tail(@)])
    ELSE \* write, then read_until: a stream that is already being read
         \* refuses the second read_until ("Already reading"), after the
         \* message was written
         [h EXCEPT !.queue = Tail(@),
                   !.idle = FALSE,
                   !.streams[h.writesock].wire = Append(@, Head(h.queue)),
                   !.streams[h.writesock].rd = IF @ = NoReq THEN Head(h.queue) ELSE @,
                   !.exc = (h.streams[h.writesock].rd # NoReq),
                   !.sent = Append(@, [req |-> Head(h.queue), stream |-> h.writesock])]

\* the queue entry with the stamp of its submission
Stamp(h, m) ==
    IF h.trace_on
    THEN [m EXCEPT !.id = h.nsub + 1, !.subws = h.writesock, !.subcl = h.nclose]
    ELSE m

send_append(h, m) ==
    IF h.idle
    THEN process_write_queue([h EXCEPT !.queue = Append(@, Stamp(h, m)),
                                       !.nsub = IF h.trace_on THEN @ + 1 ELSE @])
    ELSE [h EXCEPT !.queue = Append(@, Stamp(h, m)),
                   !.nsub = IF h.trace_on THEN @ + 1 ELSE @]

RECURSIVE send_all(_, _)
\* send_notmodified of each message of a list, in order; an exception ends it
send_all(h, ms) ==
    IF ms = <<>> \/ h.exc THEN h
    ELSE send_all(send_append(h, Head(ms)), Tail(ms))

send_modified(h, m) == send_append([h EXCEPT !.pedalboard_modified = TRUE], m)

send_notmodified(h, m) == send_append(h, m)

\* process_resp(r, datatype) of the reply to a request: answers are 1
\* (resp 0, ok, true), 0 (false), -1 (a negative resp) and -2 (not a resp:
\* None)
Answers(m) ==
    IF m.dt = "int" THEN {0, -1}
    ELSE IF m.dt = "string" THEN {0, 1, 2}
    ELSE {1, 0}

\* check_response(resp) of the read_until armed on stream s
\* process_resp(None, datatype): what a callback receives for a reply that
\* does not start with "resp"
Null == -2

check_response(h, s, resp) ==
    LET m == h.streams[s].rd
        st_next(x) == IF x.exc THEN x ELSE process_write_queue(x)
    IN st_next(Call([h EXCEPT !.streams[s].rd = NoReq,
                              !.streams[s].wire = Tail(@),
                              !.delivered = Append(@, [to |-> m.id,
                                                       of |-> Head(h.streams[s].wire).id])],
                    m.cb, resp))
----------------------------------------------------------------------------
(* The plugin world: what the LV2 metadata reader answers *)

URIs == {"urn:amp", "urn:dly"}

\* get_plugin_control_inputs_and_monitored_outputs(uri)['inputs']
Inputs(uri) ==
    IF uri = "urn:amp"
    THEN << [symbol |-> "gain", default |-> 0, designation |-> "", notOnGUI |-> FALSE,
             properties |-> {"logarithmic"}, scalePoints |-> <<>>],
            [symbol |-> "en", default |-> 1, designation |-> "enabled", notOnGUI |-> FALSE,
             properties |-> {"toggled"}, scalePoints |-> <<>>],
            [symbol |-> "fw", default |-> 0, designation |-> "freeWheeling", notOnGUI |-> FALSE,
             properties |-> {"toggled"}, scalePoints |-> <<>>] >>
    ELSE << [symbol |-> "time", default |-> 0, designation |-> "", notOnGUI |-> FALSE,
             properties |-> {"integer", "enumeration", "tapTempo"},
             scalePoints |-> <<0, 1>>] >>

\* get_plugin_control_inputs_and_monitored_outputs(uri)['monitoredOutputs']
MonitoredOutputs(uri) == IF uri = "urn:amp" THEN <<"out">> ELSE <<>>

\* get_plugin_info(uri)['presets'], by uri
\* The presets of urn:bank: more than kMaxAddressableScalepoints of them.
BankPresets == 52

PresetUri(k) == "urn:bank#" \o ToString(k)

Presets(uri) ==
    IF uri = "urn:amp" THEN <<"pA", "pB">>
    ELSE IF uri = "urn:bank" THEN [k \in 1..BankPresets |-> PresetUri(k)]
    ELSE <<>>

InputSymbols(uri) == [i \in 1..Len(Inputs(uri)) |-> Inputs(uri)[i].symbol]

\* the loop over allports['inputs'] of add_plugin and load: valports
ScanValports(uri, bypassed) ==
    [s \in Range(InputSymbols(uri)) |->
        LET p == CHOOSE q \in Range(Inputs(uri)) : q.symbol = s
        IN IF p.notOnGUI THEN p.default
           ELSE IF p.designation = "enabled" THEN (IF bypassed THEN 0 ELSE 1)
           ELSE IF p.designation = "freeWheeling" THEN 0
           ELSE p.default]

\* the same loop: badports
ScanBadports(uri) ==
    {p.symbol : p \in {q \in Range(Inputs(uri)) :
                          q.notOnGUI \/ q.designation \in {"enabled", "freeWheeling"}}}

\* the same loop: (enabled_symbol, freewheel_symbol), "" is None
ScanDesignation(uri, d) ==
    LET ps == {q \in Range(Inputs(uri)) : ~q.notOnGUI /\ q.designation = d}
    IN IF ps = {} THEN ""
       ELSE (CHOOSE q \in ps : \A r \in ps :
                IndexOf(Inputs(uri), q) >= IndexOf(Inputs(uri), r)).symbol

ScanDesignations(uri) ==
    <<ScanDesignation(uri, "enabled"), ScanDesignation(uri, "freeWheeling")>>

\* the plugin record built by add_plugin's host_callback
NewPlugin(instance, uri) ==
    [instance |-> instance, uri |-> uri, bypassed |-> FALSE,
     bypassCC |-> NoBypassCC,
     addressings |-> <<>>,
     midiCCs |-> [s \in Range(InputSymbols(uri)) |-> NoCC],
     ports |-> ScanValports(uri, FALSE),
     badports |-> ScanBadports(uri),
     designations |-> ScanDesignations(uri),
     outputs |-> [s \in Range(MonitoredOutputs(uri)) |-> NoValue],
     preset |-> "", mapPresets |-> <<>>, x |-> 0, y |-> 0]

\* the order plugin['ports'].items() iterates in: the scanned inputs, then
\* the symbols stored later
PortOrder(plugin) ==
    InputSymbols(plugin.uri)
    \o SetToSeq(DOMAIN plugin.ports \ Range(InputSymbols(plugin.uri)))

\* the order plugin['midiCCs'].items() iterates in
MidiCCOrder(plugin) ==
    InputSymbols(plugin.uri)
    \o SetToSeq(DOMAIN plugin.midiCCs \ Range(InputSymbols(plugin.uri)))

Msg0 == [k |-> "", inst |-> "", sym |-> "", val |-> 0, uri |-> "",
         pa |-> NoPath, pb |-> NoPath]

----------------------------------------------------------------------------
(* Connections *)

HwPorts == {"capture_1", "playback_1"}

\* whether _fix_host_connection_port(port) returns (else KeyError)
can_fix_port(m, port) == port[1] = "/graph" \/ knows_instance(m, port[1])

_fix_host_connection_port(m, port) ==
    IF port[1] = "/graph"
    THEN IF port[2] = "playback_1"
         THEN [kind |-> "mod-host", id |-> -1, sym |-> "monitor-in_1"]
         ELSE [kind |-> "system", id |-> -1, sym |-> port[2]]
    ELSE [kind |-> "effect", id |-> get_id_without_creating(m, port[1]), sym |-> port[2]]

----------------------------------------------------------------------------
(* EngineLink: connection, crash and replay *)

\* the commands report_current_state replays for one plugin after a crash
ReplayOfPlugin(i, plugin) ==
    LET po == PortOrder(plugin)
        co == MidiCCOrder(plugin)
        outs == MonitoredOutputs(plugin.uri)
    IN <<[Req0 EXCEPT !.cmd = "add", !.uri = plugin.uri, !.iid = i]>>
       \o (IF plugin.bypassed
           THEN <<[Req0 EXCEPT !.cmd = "bypass", !.iid = i, !.val = 1]>> ELSE <<>>)
       \o (IF -1 \notin Range(plugin.bypassCC)
           THEN <<[Req0 EXCEPT !.cmd = "midi_map", !.iid = i, !.sym = ":bypass",
                               !.cc = <<plugin.bypassCC[1], plugin.bypassCC[2], 0, 1>>]>>
           ELSE <<>>)
       \o (IF plugin.preset # ""
           THEN <<[Req0 EXCEPT !.cmd = "preset_load", !.iid = i, !.uri = plugin.preset]>>
           ELSE <<>>)
       \o [k \in 1..Len(po) |->
              [Req0 EXCEPT !.cmd = "param_set", !.iid = i, !.sym = po[k],
                           !.val = plugin.ports[po[k]]]]
       \o SelectSeq([k \in 1..Len(outs) |->
                        [Req0 EXCEPT !.cmd = "monitor_output", !.iid = i, !.sym = outs[k],
                                     !.val = plugin.outputs[outs[k]]]],
                    LAMBDA r : r.val # NoValue)
       \o SelectSeq([k \in 1..Len(co) |->
                        [Req0 EXCEPT !.cmd = "midi_map", !.iid = i, !.sym = co[k],
                                     !.cc = plugin.midiCCs[co[k]]]],
                    LAMBDA r : /\ -1 \notin {r.cc[1], r.cc[2]}
                               /\ r.sym \notin plugin.badports)

RECURSIVE ReplayOfPlugins(_, _)
ReplayOfPlugins(ps, ids) ==
    IF ids = <<>> THEN <<>>
    ELSE ReplayOfPlugin(Head(ids), ps[Head(ids)]) \o ReplayOfPlugins(ps, Tail(ids))

RECURSIVE ReplayOfConnections(_, _)
\* the connect commands, up to the first edge whose port cannot be resolved
ReplayOfConnections(m, conns) ==
    IF conns = <<>> \/ ~can_fix_port(m, Head(conns)[1]) \/ ~can_fix_port(m, Head(conns)[2])
    THEN <<>>
    ELSE <<[Req0 EXCEPT !.cmd = "connect",
                        !.a = _fix_host_connection_port(m, Head(conns)[1]),
                        !.b = _fix_host_connection_port(m, Head(conns)[2])]>>
         \o ReplayOfConnections(m, Tail(conns))

\* the engine commands of report_current_state when crashed was set; the
\* monitor_output entries carry no value on the wire
ReplayCommands(h) ==
    LET strip(r) == IF r.cmd = "monitor_output" THEN [r EXCEPT !.val = 0] ELSE r
        ps == ReplayOfPlugins(h.plugins, IntSetToSeq(DOMAIN h.plugins))
    IN [k \in 1..Len(ps) |-> strip(ps[k])]
       \o ReplayOfConnections(h.mapper, h.connections)

\* report_current_state(websocket): the snapshot written to the websocket
\* changes nothing of the host; the replay does
report_current_state(h, websocket) ==
    IF ~websocket THEN h
    ELSE LET h1 == [h EXCEPT !.crashed = FALSE]
         IN IF h.crashed THEN send_all(h1, ReplayCommands(h1)) ELSE h1

\* writer_check_response of the stream s opened by open_connection_if_needed
writer_check_response(h, s) ==
    LET st_queue(x) ==
            IF x.exc THEN x
            ELSE IF Len(x.queue) > 0 THEN process_write_queue(x)
            ELSE [x EXCEPT !.idle = TRUE]
    IN st_queue(report_current_state(h, h.streams[s].ws))

\* open_connection_if_needed(websocket); s is the stream a new socket gets
open_connection_if_needed(h, websocket, s) ==
    IF h.readsock # 0 /\ h.writesock # 0
    THEN report_current_state(h, websocket)
    ELSE [h EXCEPT !.idle = FALSE,
                   !.writesock = s,
                   !.streams[s] = [Stream0 EXCEPT !.state = "connecting", !.ws = websocket],
                   !.readsock = s,
                   !.rlive = @ \cup {s}]

reader_connection_closed(h) == [h EXCEPT !.readsock = 0]

writer_connection_closed(h) ==
    msg_callback([h EXCEPT !.writesock = 0, !.crashed = TRUE],
                 [Msg0 EXCEPT !.k = "stop"])
----------------------------------------------------------------------------
(* The HMI *)

\* self.hmi.<call>(..., callback): the call is sent, its callback runs when
\* the HMI acknowledges it
hmi_send(h, c) == [h EXCEPT !.hmiq = Append(@, c), !.hmicalls = Append(@, c)]

\* the callback of a user of the API is run with a result
user_callback(h, f, v) == [h EXCEPT !.cbs = Append(@, <<f.sym, v>>)]

\* an exception leaves the handler
raise(h) == [h EXCEPT !.exc = TRUE]

----------------------------------------------------------------------------
(* AddressingEngine *)

ADDRESSING_CTYPE_LINEAR == 0
ADDRESSING_CTYPE_BYPASS == 1
ADDRESSING_CTYPE_TAP_TEMPO == 2
ADDRESSING_CTYPE_ENUMERATION == 4
ADDRESSING_CTYPE_SCALE_POINTS == 8
ADDRESSING_CTYPE_TRIGGER == 16
ADDRESSING_CTYPE_TOGGLED == 32
ADDRESSING_CTYPE_LOGARITHMIC == 64
ADDRESSING_CTYPE_INTEGER == 128
kMaxAddressableScalepoints == 50

kNullAddressURI == "null"
kMidiLearnURI == "/midi-learn"
kMidiUnmapURI == "/midi-unmap"

\* get_hardware()["actuators"]: the uris that get a ring
HwActuators == {"/hmi/knob1", "/hmi/footswitch1"}

\* the keys of _uri2hw_map (the uris with a hardware tuple)
MappedActuators == {"/hmi/knob1", "/hmi/knob2", "/hmi/knob3", "/hmi/knob4",
                    "/hmi/footswitch1", "/hmi/footswitch2", "/hmi/footswitch3",
                    "/hmi/footswitch4"}

IsFootswitch(uri) == uri \in {"/hmi/footswitch1", "/hmi/footswitch2",
                              "/hmi/footswitch3", "/hmi/footswitch4"}

\* _init_addressings: self.addressings
InitAddressings == [u \in HwActuators |-> [idx |-> 0, addrs |-> <<>>]]

\* the entry of a plugin's addressings dict for a port, <<>> when absent
AddressingOf(plugin, port) ==
    SelectSeq(plugin.addressings, LAMBDA a : a.port = port)

\* whether seq[i] raises no IndexError
PyIndexable(s, i) == -Len(s) <= i /\ i < Len(s)

\* seq[i] of Python
PyIndex(s, i) == IF i >= 0 THEN s[i + 1] ELSE s[Len(s) + i + 1]

\* _unaddress(pluginData, port): the actuator uri it returns, "" is None
_unaddress_uri(plugin, port) ==
    IF AddressingOf(plugin, port) = <<>> THEN ""
    ELSE AddressingOf(plugin, port)[1].actuator_uri

\* _unaddress(pluginData, port): whether it raises (no ring of that uri, or
\* the ring does not hold the addressing)
_unaddress_raises(rings, plugin, port) ==
    /\ AddressingOf(plugin, port) # <<>>
    /\ LET a == AddressingOf(plugin, port)[1]
       IN \/ a.actuator_uri \notin DOMAIN rings
          \/ a \notin Range(rings[a.actuator_uri].addrs)

\* _unaddress(pluginData, port): pluginData afterwards
_unaddress_plugin(plugin, port) ==
    [plugin EXCEPT !.addressings = SelectSeq(@, LAMBDA a : a.port # port)]

\* the cursor of a ring after the addressing at index was popped
UnaddressIdx_after(idx, index) == IF idx > index THEN idx - 1 ELSE idx

UnaddressIdx(idx, index) == IF idx >= index THEN idx - 1 ELSE idx

\* _unaddress(pluginData, port): self.addressings afterwards
_unaddress_rings(rings, plugin, port) ==
    IF AddressingOf(plugin, port) = <<>> \/ _unaddress_raises(rings, plugin, port)
    THEN rings
    ELSE LET a == AddressingOf(plugin, port)[1]
             ring == rings[a.actuator_uri]
             index == IndexOf(ring.addrs, a)
         IN [rings EXCEPT ![a.actuator_uri] =
                [addrs |-> PopAt(ring.addrs, index),
                 idx |-> UnaddressIdx(ring.idx, index)]]

\* _addressing_load(actuator_uri, callback, value, skipPresets); value is
\* NoValue for None
_addressing_load(h, actuator_uri, cb, value, skipPresets) ==
    IF actuator_uri \notin DOMAIN h.addressings THEN raise(h)
    ELSE LET ring == h.addressings[actuator_uri]
         IN IF ~PyIndexable(ring.addrs, ring.idx) THEN Call(h, cb, 0)
            ELSE LET addressing == PyIndex(ring.addrs, ring.idx)
                     iid == addressing.instance_id
                     portsymbol == addressing.port
                 IN IF actuator_uri \notin MappedActuators \/ iid \notin DOMAIN h.plugins
                    THEN raise(h)
                    ELSE LET plugin == h.plugins[iid]
                             control_add(v) ==
                                 hmi_send(h, [HmiCall0 EXCEPT
                                     !.call = "control_add", !.iid = iid,
                                     !.sym = portsymbol, !.act = actuator_uri,
                                     !.label = addressing.label,
                                     !.type = addressing.type, !.val = v,
                                     !.num = Len(ring.addrs),
                                     !.index = ring.idx + 1, !.cb = cb])
                         IN IF value # NoValue THEN control_add(value)
                            ELSE IF portsymbol = ":bypass"
                            THEN control_add(IF plugin.bypassed THEN 1 ELSE 0)
                            ELSE IF portsymbol = ":presets"
                            THEN IF skipPresets THEN Call(h, cb, 1)
                                 ELSE IF plugin.preset \notin Range(plugin.mapPresets)
                                 THEN raise(h)
                                 ELSE control_add(IndexOf(plugin.mapPresets, plugin.preset))
                            ELSE IF portsymbol \notin DOMAIN plugin.ports THEN raise(h)
                            ELSE control_add(plugin.ports[portsymbol])

\* the cursor _address_next moves a ring of n > 0 addressings to
NextIdx(idx, n) == PyMod(idx + 1, n)

\* the cursor _address_prev moves a ring of n > 0 addressings to
PrevIdx(idx, n) == PyMod(idx - 1, n)

\* _address_next(actuator_hw, callback) on the actuator of a uri
_address_next(h, actuator_uri, cb) ==
    IF actuator_uri \notin MappedActuators \/ actuator_uri \notin DOMAIN h.addressings
    THEN raise(h)
    ELSE IF Len(h.addressings[actuator_uri].addrs) > 0
    THEN _addressing_load(
             [h EXCEPT !.addressings[actuator_uri].idx =
                          NextIdx(@, Len(h.addressings[actuator_uri].addrs))],
             actuator_uri, cb, NoValue, FALSE)
    ELSE hmi_send(h, [HmiCall0 EXCEPT !.call = "control_clean",
                                      !.act = actuator_uri, !.cb = cb])

\* _address_prev(actuator_hw, callback) on the actuator of a uri
_address_prev(h, actuator_uri, cb) ==
    IF actuator_uri \notin MappedActuators \/ actuator_uri \notin DOMAIN h.addressings
    THEN raise(h)
    ELSE IF Len(h.addressings[actuator_uri].addrs) > 0
    THEN _addressing_load(
             [h EXCEPT !.addressings[actuator_uri].idx =
                          PrevIdx(@, Len(h.addressings[actuator_uri].addrs))],
             actuator_uri, cb, NoValue, FALSE)
    ELSE hmi_send(h, [HmiCall0 EXCEPT !.call = "control_clean",
                                      !.act = actuator_uri, !.cb = cb])
----------------------------------------------------------------------------
(* Plugin values *)

\* get_state_port_values(state) of the answers to preset_show; answer 0 is
\* the empty string
StateDocs == << [gain |-> 1], [gain |-> 0, en |-> 0] >>

\* dict.update(values) on a port dict
DictUpdate(ports, values) ==
    [s \in DOMAIN ports \cup DOMAIN values |->
        IF s \in DOMAIN values THEN values[s] ELSE ports[s]]

RECURSIVE Distinct(_)
\* the elements of a list in order, each once
Distinct(s) ==
    IF s = <<>> THEN <<>>
    ELSE <<Head(s)>> \o Distinct(SelectSeq(Tail(s), LAMBDA x : x # Head(s)))

\* preset_load(instance, uri, callback)
preset_load(h, instance, uri, cb) ==
    IF ~knows_instance(h.mapper, instance) THEN raise(h)
    ELSE LET iid == get_id_without_creating(h.mapper, instance)
         IN send_modified(h, [Req0 EXCEPT
                !.cmd = "preset_load", !.iid = iid, !.uri = uri, !.dt = "boolean",
                !.cb = <<[Frame0 EXCEPT !.k = "preset_load.host_callback",
                                        !.inst = instance, !.iid = iid, !.uri = uri]>>
                       \o cb])

\* preset_load.host_callback(ok)
preset_load_host_callback(h, f, cb, ok) ==
    IF ok # 1 THEN Call(h, cb, 0)
    ELSE send_notmodified(h, [Req0 EXCEPT
            !.cmd = "preset_show", !.uri = f.uri, !.dt = "string",
            !.cb = <<[f EXCEPT !.k = "preset_load.preset_callback"]>> \o cb])

\* preset_load.preset_callback: the loop over used_actuators, one
\* _addressing_load(actuator_uri, skipPresets=True) after the other
preset_load_next_reloading_presets(h, f, cb, ok) ==
    IF f.lst = <<>> THEN Call(h, cb, 1)
    ELSE _addressing_load(h, Head(f.lst),
                          <<[f EXCEPT !.k = "preset_load.next", !.lst = Tail(@)]>> \o cb,
                          NoValue, FALSE)

preset_load_next(h, f, cb, ok) ==
    IF f.lst = <<>> THEN Call(h, cb, 1)
    ELSE _addressing_load(h, Head(f.lst),
                          <<[f EXCEPT !.k = "preset_load.next", !.lst = Tail(@)]>> \o cb,
                          NoValue, TRUE)

\* the port values preset_callback stores
PresetPorts(ports, state) == DictUpdate(ports, StateDocs[state])

\* preset_load.preset_callback(state)
preset_load_preset_callback(h, f, cb, state) ==
    IF state = 0 THEN Call(h, cb, 0)
    ELSE IF f.iid \notin DOMAIN h.plugins THEN raise(h)
    ELSE LET h1 == [h EXCEPT !.plugins[f.iid].preset = f.uri,
                             !.plugins[f.iid].ports = PresetPorts(@, state)]
             plugin == h1.plugins[f.iid]
             enabled_symbol == plugin.designations[1]
             freewheel_symbol == plugin.designations[2]
             shown(s) == IF s = enabled_symbol THEN (IF plugin.bypassed THEN 0 ELSE 1)
                         ELSE IF s = freewheel_symbol THEN 0
                         ELSE plugin.ports[s]
             items == SelectSeq(PortOrder(plugin), LAMBDA s : s \in DOMAIN plugin.ports)
                      \o SetToSeq(DOMAIN plugin.ports \ Range(PortOrder(plugin)))
             h2 == [h1 EXCEPT !.msgs = @
                       \o <<[Msg0 EXCEPT !.k = "preset", !.inst = f.inst, !.uri = f.uri]>>
                       \o [k \in 1..Len(items) |->
                              [Msg0 EXCEPT !.k = "param_set", !.inst = f.inst,
                                           !.sym = items[k], !.val = shown(items[k])]]]
             addressed == SelectSeq(items, LAMBDA s : AddressingOf(plugin, s) # <<>>)
             used == Distinct([k \in 1..Len(addressed) |->
                                  AddressingOf(plugin, addressed[k])[1].actuator_uri])
         IN preset_load_next(h2, [f EXCEPT !.lst = used], cb, 1)

----------------------------------------------------------------------------
(* address *)

Min(a, b) == IF a < b THEN a ELSE b

\* the type flags address computes for a control port
PortCtype(port_info, actuator_uri) ==
    LET pprops == port_info.properties
    IN (IF "toggled" \in pprops THEN ADDRESSING_CTYPE_TOGGLED
        ELSE IF "integer" \in pprops THEN ADDRESSING_CTYPE_INTEGER
        ELSE ADDRESSING_CTYPE_LINEAR)
       + (IF "logarithmic" \in pprops THEN ADDRESSING_CTYPE_LOGARITHMIC ELSE 0)
       + (IF "trigger" \in pprops THEN ADDRESSING_CTYPE_TRIGGER ELSE 0)
       + (IF "tapTempo" \in pprops /\ IsFootswitch(actuator_uri)
          THEN ADDRESSING_CTYPE_TAP_TEMPO ELSE 0)
       + (IF Len(port_info.scalePoints) > 0 /\ "enumeration" \in pprops
          THEN ADDRESSING_CTYPE_SCALE_POINTS + ADDRESSING_CTYPE_ENUMERATION ELSE 0)

PortOptions(port_info) ==
    IF Len(port_info.scalePoints) > 0 /\ "enumeration" \in port_info.properties
    THEN port_info.scalePoints ELSE <<>>

\* address, ':presets': the preset the plugin has selected after the
\* "force one" step
ForcedPreset(plugin, presets) ==
    IF plugin.preset = "" THEN presets[1] ELSE plugin.preset

\* address, ':presets': maximum before the out-of-limits case
PresetsMaximum(presets) == Min(Len(presets), kMaxAddressableScalepoints)

\* address, ':presets': whether it gives up (no presets, or the selected
\* preset does not exist)
PresetsFail(plugin, presets) ==
    \/ Len(presets) = 0
    \/ /\ ForcedPreset(plugin, presets)
             \notin Range(SubSeq(presets, 1, PresetsMaximum(presets)))
       /\ Len(presets) = PresetsMaximum(presets)

\* address, ':presets': mapPresets
PresetsMap(plugin, presets) ==
    LET mx == PresetsMaximum(presets)
        first == SubSeq(presets, 1, mx)
    IN IF ForcedPreset(plugin, presets) \in Range(first) THEN first
       ELSE Append(first, presets[mx + 1])

\* the last steps of address to an actuator: the old ring moves on, the
\* preset is loaded, the binding is sent to the HMI
address_nextStepAddressing2(h, f, cb, ok) ==
    _addressing_load(h, f.act, cb, NoValue, FALSE)

address_nextStepAddressing(h, f, cb, ok) ==
    IF f.uri # ""
    THEN preset_load(h, f.inst, f.uri,
                     <<[f EXCEPT !.k = "address.nextStepAddressing2"]>> \o cb)
    ELSE _addressing_load(h, f.act, cb, NoValue, FALSE)

address_nextStepUnaddressing(h, f, cb, ok) ==
    _address_next(h, f.old, <<[f EXCEPT !.k = "address.nextStepAddressing"]>> \o cb)

\* the last steps of address to "null", "/midi-learn" and "/midi-unmap"
address_unaddressingStep2(h, f, cb, ok) ==
    IF f.act = kMidiLearnURI
    THEN send_notmodified(h, [Req0 EXCEPT !.cmd = "midi_learn", !.iid = f.iid,
                                          !.sym = f.sym, !.cc = <<f.n1, f.n2>>,
                                          !.dt = "boolean", !.cb = cb])
    ELSE IF f.act = kMidiUnmapURI
    THEN LET h1 == IF f.iid \notin DOMAIN h.plugins THEN h
                   ELSE IF f.sym = ":bypass"
                   THEN [h EXCEPT !.plugins[f.iid].bypassCC = NoBypassCC]
                   ELSE [h EXCEPT !.plugins[f.iid].midiCCs =
                                     (f.sym :> NoCC) @@ @]
         IN send_modified(h1, [Req0 EXCEPT !.cmd = "midi_unmap", !.iid = f.iid,
                                           !.sym = f.sym, !.dt = "boolean",
                                           !.cb = cb])
    ELSE Call(h, cb, 1)

address_unaddressingStep1(h, f, cb, ok) ==
    _address_next(h, f.old, <<[f EXCEPT !.k = "address.unaddressingStep2"]>> \o cb)

\* the ring of an actuator after address appended a binding
RingAppend(ring, addressing) ==
    [addrs |-> Append(ring.addrs, addressing), idx |-> Len(ring.addrs)]

\* address: the part after _unaddress, for an actuator of the HMI; pd is
\* pluginData, presets the plugin's preset uris
address_hmi(h, iid, pd, old, presets, instance, port, actuator_uri, label, minimum, maximum, steps, cb, skipLoad) ==
    LET fail(p) == LET hp == [h EXCEPT !.plugins[iid] = p]
                   IN IF skipLoad THEN hp ELSE Call(hp, cb, 0)
        infos == SelectSeq(Inputs(pd.uri), LAMBDA q : q.symbol = port)
    IN IF port = ":presets" /\ PresetsFail(pd, presets)
       THEN fail([pd EXCEPT !.mapPresets = <<>>, !.preset = ""])
       ELSE IF port \notin {":bypass", ":presets"} /\ infos = <<>>
       THEN Call(h, cb, 0)
       ELSE
       LET pd1 == IF port = ":presets"
                  THEN [pd EXCEPT !.preset = ForcedPreset(pd, presets),
                                  !.mapPresets = PresetsMap(pd, presets)]
                  ELSE pd
           spreset == IF port = ":presets" THEN pd1.preset ELSE ""
           addressing ==
               [actuator_uri |-> actuator_uri, instance_id |-> iid, port |-> port,
                label |-> label,
                type |-> IF port = ":bypass" THEN ADDRESSING_CTYPE_BYPASS
                         ELSE IF port = ":presets"
                         THEN ADDRESSING_CTYPE_SCALE_POINTS + ADDRESSING_CTYPE_ENUMERATION
                              + ADDRESSING_CTYPE_INTEGER
                         ELSE PortCtype(infos[1], actuator_uri),
                minimum |-> IF port = ":presets" THEN 0 ELSE minimum,
                maximum |-> IF port = ":presets" THEN Len(pd1.mapPresets) ELSE maximum,
                steps |-> steps,
                options |-> IF port = ":bypass" THEN <<>>
                            ELSE IF port = ":presets" THEN pd1.mapPresets
                            ELSE PortOptions(infos[1])]
           pd2 == [pd1 EXCEPT !.addressings = Append(@, addressing)]
           h1 == [h EXCEPT !.plugins[iid] = pd2]
       IN IF actuator_uri \notin DOMAIN h.addressings THEN raise(h1)
          ELSE LET h2 == [h1 EXCEPT !.addressings[actuator_uri] =
                                        RingAppend(@, addressing)]
                   f == [Frame0 EXCEPT !.inst = instance, !.iid = iid, !.sym = port,
                                       !.act = actuator_uri, !.old = old,
                                       !.uri = spreset]
               IN IF skipLoad THEN h2
                  ELSE IF old # ""
                  THEN hmi_send(h2, [HmiCall0 EXCEPT
                          !.call = "control_rm", !.iid = iid, !.sym = port,
                          !.cb = <<[f EXCEPT !.k = "address.nextStepUnaddressing"]>> \o cb])
                  ELSE address_nextStepAddressing(h2, f, cb, 1)

\* address(instance, port, actuator_uri, label, minimum, maximum, value,
\* steps, callback, skipLoad)
address(h, instance, port, actuator_uri, label, minimum, maximum, steps, cb, skipLoad) ==
    LET iid == get_id(h.mapper, instance)
        h1 == [h EXCEPT !.mapper = get_id_mapper(@, instance)]
    IN IF iid \notin DOMAIN h1.plugins THEN Call(h1, cb, 0)
       ELSE
       LET pd0 == h1.plugins[iid]
           old == _unaddress_uri(pd0, port)
           pd == _unaddress_plugin(pd0, port)
           h2 == [h1 EXCEPT !.plugins[iid] = pd,
                            !.addressings = _unaddress_rings(@, pd0, port)]
           f == [Frame0 EXCEPT !.inst = instance, !.iid = iid, !.sym = port,
                               !.act = actuator_uri, !.old = old,
                               !.n1 = minimum, !.n2 = maximum]
       IN IF _unaddress_raises(h1.addressings, pd0, port) THEN raise(h2)
          ELSE IF /\ actuator_uri # ""
                  /\ actuator_uri \notin {kNullAddressURI, kMidiLearnURI, kMidiUnmapURI}
                  /\ port \notin Range(pd.designations)
          THEN address_hmi(h2, iid, pd, old, Presets(pd.uri), instance, port,
                           actuator_uri, label, minimum, maximum, steps, cb, skipLoad)
          ELSE IF skipLoad THEN h2
          ELSE IF old # ""
          THEN hmi_send(h2, [HmiCall0 EXCEPT
                  !.call = "control_rm", !.iid = iid, !.sym = port,
                  !.cb = <<[f EXCEPT !.k = "address.unaddressingStep1"]>> \o cb])
          ELSE address_unaddressingStep2(h2, f, cb, 1)
----------------------------------------------------------------------------
(* SessionGraph: reset, add, remove *)

\* reset.host_callback(ok)
reset_host_callback(h, f, cb, ok) ==
    Call(msg_callback(h, [Msg0 EXCEPT !.k = "remove", !.inst = ":all"]), cb, ok)

\* reset(callback)
reset(h, cb) ==
    send_notmodified(
        [h EXCEPT !.bank_id = 0, !.plugins = <<>>, !.connections = <<>>,
                  !.mapper = MapperClear, !.addressings = InitAddressings,
                  !.pedalboard_modified = FALSE, !.pedalboard_path = ""],
        [Req0 EXCEPT !.cmd = "remove", !.iid = -1, !.dt = "boolean",
                     !.cb = <<[Frame0 EXCEPT !.k = "reset.host_callback"]>> \o cb])

\* the monitor_output requests of a new plugin
MonitorRequests(iid, uri) ==
    [k \in 1..Len(MonitoredOutputs(uri)) |->
        [Req0 EXCEPT !.cmd = "monitor_output", !.iid = iid,
                     !.sym = MonitoredOutputs(uri)[k]]]

\* add_plugin.host_callback(resp)
add_plugin_host_callback(h, f, cb, resp) ==
    LET st_cb(x) == IF x.exc THEN x ELSE Call(x, cb, 1)
        st_msg(x) ==
            IF x.exc THEN x
            ELSE msg_callback(x, [Msg0 EXCEPT !.k = "add", !.inst = f.inst,
                                              !.uri = f.uri])
    IN IF resp < 0 THEN Call(h, cb, 0)
       ELSE st_msg(st_cb(send_all(
                [h EXCEPT !.plugins = (f.iid :> NewPlugin(f.inst, f.uri)) @@ @],
                MonitorRequests(f.iid, f.uri))))

\* add_plugin(instance, uri, x, y, callback)
add_plugin(h, instance, uri, cb) ==
    LET iid == get_id(h.mapper, instance)
        h1 == [h EXCEPT !.mapper = get_id_mapper(@, instance)]
    IN send_modified(h1, [Req0 EXCEPT
            !.cmd = "add", !.uri = uri, !.iid = iid, !.dt = "int",
            !.cb = <<[Frame0 EXCEPT !.k = "add_plugin.host_callback",
                                    !.inst = instance, !.iid = iid, !.uri = uri]>>
                   \o cb])

\* the connections remove_plugin's host_callback removes
EdgesOf(conns, instance) ==
    SelectSeq(conns, LAMBDA e : e[1][1] = instance \/ e[2][1] = instance)

RECURSIVE RemoveAll(_, _)
\* connections.remove(ports) for each of a list
RemoveAll(conns, es) ==
    IF es = <<>> THEN conns ELSE RemoveAll(Remove(conns, Head(es)), Tail(es))

\* remove_plugin.host_callback(ok)
remove_plugin_host_callback(h, f, cb, ok) ==
    LET st_edges(x) ==
            IF x.exc THEN x
            ELSE [x EXCEPT
                    !.connections = RemoveAll(@, EdgesOf(x.connections, f.inst)),
                    !.msgs = @ \o [k \in 1..Len(EdgesOf(x.connections, f.inst)) |->
                                      [Msg0 EXCEPT
                                          !.k = "disconnect",
                                          !.pa = EdgesOf(x.connections, f.inst)[k][1],
                                          !.pb = EdgesOf(x.connections, f.inst)[k][2]]]
                               \o <<[Msg0 EXCEPT !.k = "remove", !.inst = f.inst]>>]
    IN st_edges(Call(h, cb, ok))

\* remove_plugin.hmi_callback(ok)
remove_plugin_hmi_callback(h, f, cb, ok) ==
    send_modified(h, [Req0 EXCEPT
        !.cmd = "remove", !.iid = f.iid, !.dt = "boolean",
        !.cb = <<[f EXCEPT !.k = "remove_plugin.host_callback"]>> \o cb])

\* remove_plugin: the loop over used_actuators, one _address_next after the
\* other, and the part after it
remove_plugin_next_eager(h, f, cb, ok) ==
    IF f.lst # <<>>
    THEN _address_next(h, Head(f.lst),
                       <<[f EXCEPT !.k = "remove_plugin.next", !.lst = Tail(@)]>> \o cb)
    ELSE remove_plugin_hmi_callback(h, f, cb, 1)

remove_plugin_next(h, f, cb, ok) ==
    IF f.lst # <<>>
    THEN _address_next(h, Head(f.lst),
                       <<[f EXCEPT !.k = "remove_plugin.next", !.lst = Tail(@)]>> \o cb)
    ELSE IF h.hmi_initialized
    THEN hmi_send(h, [HmiCall0 EXCEPT
            !.call = "control_rm", !.iid = f.iid, !.sym = ":all",
            !.cb = <<[f EXCEPT !.k = "remove_plugin.hmi_callback"]>> \o cb])
    ELSE remove_plugin_hmi_callback(h, f, cb, 1)

RECURSIVE UnaddressAll(_, _)
\* remove_plugin: _unaddress(data, symbol) for every addressed symbol of
\* data; the rings afterwards, and whether one of the calls raised
UnaddressAll(rings, data) ==
    IF data.addressings = <<>> THEN [rings |-> rings, exc |-> FALSE]
    ELSE LET port == data.addressings[1].port
         IN IF _unaddress_raises(rings, data, port)
            THEN [rings |-> rings, exc |-> TRUE]
            ELSE UnaddressAll(_unaddress_rings(rings, data, port),
                              _unaddress_plugin(data, port))

\* remove_plugin(instance, callback)
remove_plugin(h, instance, cb) ==
    IF ~knows_instance(h.mapper, instance) THEN raise(h)
    ELSE LET iid == get_id_without_creating(h.mapper, instance)
         IN IF iid \notin DOMAIN h.plugins THEN Call(h, cb, 0)
            ELSE LET data == h.plugins[iid]
                     un == UnaddressAll(h.addressings, data)
                     used == Distinct([k \in 1..Len(data.addressings) |->
                                          data.addressings[k].actuator_uri])
                     h1 == [h EXCEPT
                              !.plugins = [i \in DOMAIN @ \ {iid} |-> @[i]],
                              !.addressings = un.rings]
                 IN IF un.exc THEN raise(h1)
                    ELSE remove_plugin_next(
                             h1, [Frame0 EXCEPT !.inst = instance, !.iid = iid,
                                                !.lst = used], cb, 1)

----------------------------------------------------------------------------
(* ParameterState: bypass, param_set *)

\* the value of the enabled port for a bypass state
EnabledValue(bypassed) == IF bypassed THEN 0 ELSE 1

\* bypass that stores the flag and leaves the value of the enabled port
BypassPlugin_flag_only(plugin, bypassed) == [plugin EXCEPT !.bypassed = bypassed]

\* the plugin record after bypass(instance, bypassed, callback)
BypassPlugin(plugin, bypassed) ==
    IF plugin.designations[1] = "" THEN [plugin EXCEPT !.bypassed = bypassed]
    ELSE [plugin EXCEPT !.bypassed = bypassed,
                        !.ports = DictUpdate(@, (plugin.designations[1] :>
                                                    EnabledValue(bypassed)))]

\* bypass(instance, bypassed, callback)
bypass(h, instance, bypassed, cb) ==
    LET iid == get_id_without_creating(h.mapper, instance)
        st_enabled(x) ==
            IF h.plugins[iid].designations[1] = "" \/ x.exc THEN x
            ELSE send_modified(
                     [x EXCEPT !.plugins[iid] = BypassPlugin(@, bypassed)],
                     [Req0 EXCEPT !.cmd = "param_set", !.iid = iid,
                                  !.sym = h.plugins[iid].designations[1],
                                  !.val = EnabledValue(bypassed),
                                  !.dt = "boolean", !.cb = cb])
    IN IF ~knows_instance(h.mapper, instance) THEN raise(h)
       ELSE IF iid \notin DOMAIN h.plugins THEN raise(h)
       ELSE st_enabled(send_modified(
                [h EXCEPT !.plugins[iid].bypassed = bypassed],
                [Req0 EXCEPT !.cmd = "bypass", !.iid = iid,
                             !.val = IF bypassed THEN 1 ELSE 0,
                             !.dt = "boolean", !.cb = cb]))

\* param_set(port, value, callback)
\* set_position: the editor moved a plugin on the canvas.
set_position(h, instance, x, y) ==
    IF ~knows_instance(h.mapper, instance) THEN raise(h)
    ELSE LET iid == get_id_without_creating(h.mapper, instance)
         IN IF iid \notin DOMAIN h.plugins THEN raise(h)
            ELSE [h EXCEPT !.plugins[iid].x = x, !.plugins[iid].y = y]

param_set_unguarded(h, port, value, cb) ==
    IF ~knows_instance(h.mapper, port[1]) THEN raise(h)
    ELSE IF get_id_without_creating(h.mapper, port[1]) \notin DOMAIN h.plugins
    THEN raise(h)
    ELSE send_modified(
            [h EXCEPT !.plugins[get_id_without_creating(h.mapper, port[1])].ports =
                          DictUpdate(@, (port[2] :> value))],
            [Req0 EXCEPT !.cmd = "param_set", !.sym = port[2], !.val = value,
                         !.iid = get_id_without_creating(h.mapper, port[1]),
                         !.dt = "boolean", !.cb = cb])

param_set(h, port, value, cb) ==
    LET instance == port[1]
        symbol == port[2]
    IN IF ~knows_instance(h.mapper, instance) THEN raise(h)
       ELSE LET iid == get_id_without_creating(h.mapper, instance)
            IN IF iid \notin DOMAIN h.plugins THEN raise(h)
               ELSE IF symbol \in Range(h.plugins[iid].designations) THEN h
               ELSE send_modified(
                        [h EXCEPT !.plugins[iid].ports = DictUpdate(@, (symbol :> value))],
                        [Req0 EXCEPT !.cmd = "param_set", !.iid = iid, !.sym = symbol,
                                     !.val = value, !.dt = "boolean", !.cb = cb])

----------------------------------------------------------------------------
(* SessionGraph: connections *)

\* connect.host_callback(ok)
connect_host_callback(h, f, cb, ok) ==
    LET st_store(x) ==
            IF x.exc \/ ok # 1 THEN x
            ELSE msg_callback([x EXCEPT !.connections = Append(@, <<f.pa, f.pb>>)],
                              [Msg0 EXCEPT !.k = "connect", !.pa = f.pa, !.pb = f.pb])
    IN st_store(Call(h, cb, ok))

\* connect(port_from, port_to, callback)
connect_resending(h, port_from, port_to, cb) ==
    IF ~can_fix_port(h.mapper, port_from) \/ ~can_fix_port(h.mapper, port_to)
    THEN raise(h)
    ELSE send_modified(h, [Req0 EXCEPT
            !.cmd = "connect", !.dt = "boolean",
            !.cb = <<[Frame0 EXCEPT !.k = "connect.host_callback",
                                    !.pa = port_from, !.pb = port_to]>> \o cb])

connect(h, port_from, port_to, cb) ==
    IF <<port_from, port_to>> \in Range(h.connections) THEN Call(h, cb, 1)
    ELSE IF ~can_fix_port(h.mapper, port_from) \/ ~can_fix_port(h.mapper, port_to)
    THEN raise(h)
    ELSE send_modified(h, [Req0 EXCEPT
            !.cmd = "connect",
            !.a = _fix_host_connection_port(h.mapper, port_from),
            !.b = _fix_host_connection_port(h.mapper, port_to),
            !.dt = "boolean",
            !.cb = <<[Frame0 EXCEPT !.k = "connect.host_callback",
                                    !.pa = port_from, !.pb = port_to]>> \o cb])

\* disconnect.host_callback(ok)
disconnect_host_callback(h, port_from, port_to, cb, ok) ==
    LET st_store(x) ==
            IF ~ok THEN x
            ELSE [x EXCEPT !.pedalboard_modified = TRUE,
                           !.connections = Remove(@, <<port_from, port_to>>)]
    IN st_store(msg_callback(Call(h, cb, 1),
                             [Msg0 EXCEPT !.k = "disconnect", !.pa = port_from,
                                          !.pb = port_to]))

\* disconnect(port_from, port_to, callback); jack_ok is what
\* disconnect_jack_ports answers
disconnect(h, port_from, port_to, cb, jack_ok) ==
    disconnect_host_callback(
        h, port_from, port_to, cb,
        IF Len(h.connections) = 0 THEN FALSE
        ELSE IF ~can_fix_port(h.mapper, port_from) \/ ~can_fix_port(h.mapper, port_to)
        THEN TRUE
        ELSE jack_ok)

----------------------------------------------------------------------------
(* EngineLink: the events of the read channel (check_message) *)

\* "param_set <instance_id> <portsymbol> <value>"
event_param_set(h, iid, portsymbol, value) ==
    IF ~knows_id(h.mapper, iid) \/ iid \notin DOMAIN h.plugins THEN h
    ELSE LET h1 == IF portsymbol = ":bypass"
                   THEN [h EXCEPT !.plugins[iid].bypassed = (value # 0)]
                   ELSE [h EXCEPT !.plugins[iid].ports =
                                     DictUpdate(@, (portsymbol :> value))]
         IN msg_callback([h1 EXCEPT !.pedalboard_modified = TRUE],
                         [Msg0 EXCEPT !.k = "param_set",
                                      !.inst = get_instance(h.mapper, iid),
                                      !.sym = portsymbol, !.val = value])

\* "output_set <instance_id> <portsymbol> <value>" of a plugin
event_output_set(h, iid, portsymbol, value) ==
    IF ~knows_id(h.mapper, iid) \/ iid \notin DOMAIN h.plugins THEN h
    ELSE msg_callback([h EXCEPT !.plugins[iid].outputs =
                                   DictUpdate(@, (portsymbol :> value))],
                      [Msg0 EXCEPT !.k = "output_set",
                                   !.inst = get_instance(h.mapper, iid),
                                   !.sym = portsymbol, !.val = value])

\* "midi_mapped <instance_id> <portsymbol> <channel> <controller> <value>
\* <minimum> <maximum>"
\* the event handler that would store the default range of a mapping
\* whatever the message says
event_midi_mapped_default_range(h, iid, portsymbol, channel, controller, value, minimum, maximum) ==
    IF ~knows_id(h.mapper, iid) \/ iid \notin DOMAIN h.plugins THEN raise(h)
    ELSE LET instance == get_instance(h.mapper, iid)
             h1 == IF portsymbol = ":bypass"
                   THEN [h EXCEPT !.plugins[iid].bypassCC = <<channel, controller>>,
                                  !.plugins[iid].bypassed = (value # 0)]
                   ELSE [h EXCEPT !.plugins[iid].midiCCs =
                                     DictUpdate(@, (portsymbol :>
                                                       <<channel, controller, 0, 1>>)),
                                  !.plugins[iid].ports =
                                     DictUpdate(@, (portsymbol :> value))]
         IN [h1 EXCEPT !.pedalboard_modified = TRUE,
                       !.msgs = @ \o <<[Msg0 EXCEPT !.k = "midi_map", !.inst = instance,
                                                    !.sym = portsymbol],
                                       [Msg0 EXCEPT !.k = "param_set", !.inst = instance,
                                                    !.sym = portsymbol, !.val = value]>>]

\* "midi_mapped <instance_id> <portsymbol> <channel> <controller> <value>
\* <minimum> <maximum>"
event_midi_mapped(h, iid, portsymbol, channel, controller, value, minimum, maximum) ==
    IF ~knows_id(h.mapper, iid) \/ iid \notin DOMAIN h.plugins THEN raise(h)
    ELSE LET instance == get_instance(h.mapper, iid)
             h1 == IF portsymbol = ":bypass"
                   THEN [h EXCEPT !.plugins[iid].bypassCC = <<channel, controller>>,
                                  !.plugins[iid].bypassed = (value # 0)]
                   ELSE [h EXCEPT !.plugins[iid].midiCCs =
                                     DictUpdate(@, (portsymbol :>
                                                       <<channel, controller, minimum, maximum>>)),
                                  !.plugins[iid].ports =
                                     DictUpdate(@, (portsymbol :> value))]
         IN [h1 EXCEPT !.pedalboard_modified = TRUE,
                       !.msgs = @ \o <<[Msg0 EXCEPT !.k = "midi_map", !.inst = instance,
                                                    !.sym = portsymbol],
                                       [Msg0 EXCEPT !.k = "param_set", !.inst = instance,
                                                    !.sym = portsymbol, !.val = value]>>]
----------------------------------------------------------------------------
(* The pedalboard world: what the bundle readers answer *)

\* the bundle directory before anything was saved
NoBundle ==
    [plugins |-> <<>>, connections |-> <<>>, addressings |-> <<>>,
     hardware |-> [midi_ins |-> <<>>, midi_outs |-> <<>>]]

BundlePaths == {"pb1", "pb2"}

\* get_pedalboard_info(bundlepath): plugins, connections (as graph paths)
\* and the content of addressings.json; get_pedalboard_plugin_values reads
\* the same plugins
BundleInfo(bundlepath) ==
    IF bundlepath = "pb1"
    THEN [plugins |-> << [instance |-> "/graph/a", uri |-> "urn:amp", bypassed |-> TRUE,
                          bypassCC |-> NoBypassCC, preset |-> "pA",
                          ports |-> << [symbol |-> "gain", value |-> 1,
                                        midiCC |-> <<0, 9, 0, 1>>] >>,
                          x |-> 0, y |-> 0] >>,
          connections |-> << << <<"/graph", "capture_1">>, <<"/graph/a", "in">> >>,
                             << <<"/graph/a", "out">>, <<"/graph/z", "in">> >> >>,
          addressings |-> << [actuator_uri |-> "/hmi/knob1",
                              addrs |-> << [instance |-> "/graph/a", port |-> "gain",
                                            label |-> "Gain", minimum |-> 0,
                                            maximum |-> 1, steps |-> 1],
                                           [instance |-> "/graph/a", port |-> ":bypass",
                                            label |-> "Byp", minimum |-> 0,
                                            maximum |-> 1, steps |-> 1] >>] >>]
    ELSE IF bundlepath = "pb4"
    THEN [plugins |-> << [instance |-> "/graph/b", uri |-> "urn:dly", bypassed |-> FALSE,
                          bypassCC |-> NoBypassCC, preset |-> "", ports |-> <<>>,
                          x |-> 0, y |-> 0] >>,
          connections |-> <<>>,
          addressings |-> << [actuator_uri |-> "/hmi/knob5",
                              addrs |-> << [instance |-> "/graph/b", port |-> "time",
                                            label |-> "Time", minimum |-> 0,
                                            maximum |-> 1, steps |-> 1] >>],
                             [actuator_uri |-> "/hmi/knob1",
                              addrs |-> << [instance |-> "/graph/b", port |-> ":bypass",
                                            label |-> "Byp", minimum |-> 0,
                                            maximum |-> 1, steps |-> 1] >>] >>]
    ELSE IF bundlepath = "pb3"
    THEN [plugins |-> << [instance |-> "/graph/a", uri |-> "urn:dly", bypassed |-> FALSE,
                          bypassCC |-> NoBypassCC, preset |-> "", ports |-> <<>>,
                          x |-> 0, y |-> 0] >>,
          connections |-> << << <<"/graph", "midi_capture_1">>, <<"/graph/a", "in">> >> >>,
          addressings |-> <<>>]
    ELSE [plugins |-> << [instance |-> "/graph/b", uri |-> "urn:dly", bypassed |-> FALSE,
                          bypassCC |-> NoBypassCC, preset |-> "", ports |-> <<>>,
                          x |-> 0, y |-> 0] >>,
          connections |-> <<>>,
          addressings |-> << [actuator_uri |-> "/hmi/knob5",
                              addrs |-> << [instance |-> "/graph/b", port |-> "time",
                                            label |-> "Time", minimum |-> 0,
                                            maximum |-> 1, steps |-> 1] >>] >>]

\* self.allpedalboards and self.banks
allpedalboards == <<"pb1", "pb2">>

banks == << [pedalboards |-> <<"pb2", "pb1">>, navigateFootswitches |-> TRUE] >>

BANK_CONFIG_NOTHING == 0
BANK_CONFIG_PEDALBOARD_UP == 2
BANK_CONFIG_PEDALBOARD_DOWN == 3

----------------------------------------------------------------------------
(* SessionLifecycle: load *)

\* load: the plugin record of a plugin p of the bundle
\* get_pedalboard_info(bundlepath) for a bundle of the pedalboards directory
\* and for the bundle save() wrote
BundleInfoOf(h, bundlepath) ==
    IF bundlepath = "saved" THEN h.saved_bundle ELSE BundleInfo(bundlepath)

LoadedPlugin(p) ==
    [NewPlugin(p.instance, p.uri) EXCEPT
        !.bypassed = p.bypassed, !.bypassCC = p.bypassCC,
        !.ports = ScanValports(p.uri, p.bypassed), !.preset = p.preset,
        !.x = p.x, !.y = p.y]

\* send_notmodified(msg) unless an exception is on its way
send_next(h, m) == IF h.exc THEN h ELSE send_notmodified(h, m)

RECURSIVE load_ports(_, _, _, _)
\* load: the loop over p['ports']
load_ports(h, iid, instance, ports) ==
    IF ports = <<>> \/ h.exc THEN h
    ELSE LET port == Head(ports)
             mapped == /\ port.symbol \notin h.plugins[iid].badports
                       /\ port.midiCC[1] >= 0 /\ port.midiCC[2] >= 0
             cc == port.midiCC
             st_set(x) ==
                 send_next([x EXCEPT !.plugins[iid].ports =
                                        DictUpdate(@, (port.symbol :> port.value))],
                           [Req0 EXCEPT !.cmd = "param_set", !.iid = iid,
                                        !.sym = port.symbol, !.val = port.value])
             st_msg(x) ==
                 IF x.exc THEN x
                 ELSE msg_callback(x, [Msg0 EXCEPT !.k = "param_set", !.inst = instance,
                                                   !.sym = port.symbol,
                                                   !.val = port.value])
             st_map(x) ==
                 IF x.exc \/ ~mapped THEN x
                 ELSE msg_callback(
                        send_next([x EXCEPT !.plugins[iid].midiCCs =
                                               DictUpdate(@, (port.symbol :> cc))],
                                  [Req0 EXCEPT !.cmd = "midi_map", !.iid = iid,
                                               !.sym = port.symbol, !.cc = cc]),
                        [Msg0 EXCEPT !.k = "midi_map", !.inst = instance,
                                     !.sym = port.symbol])
         IN load_ports(st_map(st_msg(st_set(h))), iid, instance, Tail(ports))

\* load: the body of the loop over pb['plugins']
load_plugin(h, p) ==
    LET iid == get_id(h.mapper, p.instance)
        st_add(x) ==
            send_next([x EXCEPT !.mapper = get_id_mapper(@, p.instance),
                                !.plugins = (iid :> LoadedPlugin(p)) @@ @],
                      [Req0 EXCEPT !.cmd = "add", !.uri = p.uri, !.iid = iid])
        st_bypass(x) ==
            IF p.bypassed
            THEN send_next(x, [Req0 EXCEPT !.cmd = "bypass", !.iid = iid, !.val = 1])
            ELSE x
        st_added(x) ==
            msg_callback(x, [Msg0 EXCEPT !.k = "add", !.inst = p.instance,
                                         !.uri = p.uri])
        st_bypassCC(x) ==
            IF p.bypassCC[1] >= 0 /\ p.bypassCC[2] >= 0
            THEN msg_callback(
                    send_next(x, [Req0 EXCEPT !.cmd = "midi_map", !.iid = iid,
                                              !.sym = ":bypass",
                                              !.cc = <<p.bypassCC[1], p.bypassCC[2], 0, 1>>]),
                    [Msg0 EXCEPT !.k = "midi_map", !.inst = p.instance,
                                 !.sym = ":bypass"])
            ELSE x
        st_preset(x) ==
            IF p.preset # ""
            THEN msg_callback(
                    send_next(x, [Req0 EXCEPT !.cmd = "preset_load", !.iid = iid,
                                              !.uri = p.preset]),
                    [Msg0 EXCEPT !.k = "preset", !.inst = p.instance,
                                 !.uri = p.preset])
            ELSE x
        st_ports(x) == load_ports(x, iid, p.instance, p.ports)
        st_monitor(x) == IF x.exc THEN x ELSE send_all(x, MonitorRequests(iid, p.uri))
    IN st_monitor(st_ports(st_preset(st_bypassCC(st_added(st_bypass(st_add(h)))))))

RECURSIVE load_plugins(_, _)
load_plugins(h, ps) ==
    IF ps = <<>> \/ h.exc THEN h
    ELSE load_plugins(load_plugin(h, Head(ps)), Tail(ps))

RECURSIVE load_connections(_, _)
\* load: the loop over pb['connections'] (no MIDI hardware is involved)
\* pb['hardware'] of a bundle: the MIDI ports it was saved with.
BundleHardware(bundlepath) ==
    IF bundlepath = "pb3"
    THEN [midi_ins |-> <<[symbol |-> "midi_capture_1", name |-> "Keystation"]>>,
          midi_outs |-> <<[symbol |-> "midi_playback_1", name |-> "Keystation"]>>]
    ELSE [midi_ins |-> <<>>, midi_outs |-> <<>>]

BundleHardwareOf(h, bundlepath) ==
    IF bundlepath = "saved" THEN h.saved_bundle.hardware
    ELSE BundleHardware(bundlepath)

\* The MIDI hardware ports JACK can have, their direction and their alias.
JackMidiPorts == {"midi_capture_2", "midi_playback_2"}

JackIsOutput(symbol) == symbol = "midi_playback_2"

get_jack_port_alias(symbol) == "Keystation"

\* mappedNewMidiIns / mappedNewMidiOuts: the symbols JACK has for an alias
NewMidiIns(jm, name) ==
    {s \in jm : ~JackIsOutput(s) /\ get_jack_port_alias(s) = name}

NewMidiOuts(jm, name) ==
    {s \in jm : JackIsOutput(s) /\ get_jack_port_alias(s) = name}

OldNames(ports) == {ports[k].name : k \in 1..Len(ports)}

OldSymbols(ports) == {ports[k].symbol : k \in 1..Len(ports)}

OldName(ports, symbol) ==
    ports[CHOOSE k \in 1..Len(ports) : ports[k].symbol = symbol].name

OldSymbol(ports, name) ==
    ports[CHOOSE k \in 1..Len(ports) : ports[k].name = name].symbol

MidiDevice(ins, outs, name) ==
    [ins |-> ins, outs |-> outs, alias |-> name, conns |-> <<>>]

\* curmidisymbols: the port symbols of the devices the session has
CurMidiSymbols(mp) ==
    UNION {{mp[k].ins, mp[k].outs} : k \in 1..Len(mp)} \ {""}

RECURSIVE load_register_devices(_, _, _, _)
\* load: "register devices", the MIDI inputs JACK has that the bundle names
load_register_devices(h, hw, ins, cur) ==
    IF ins = <<>> THEN [h |-> h, cur |-> cur]
    ELSE LET symbol == Head(ins)
             name == get_jack_port_alias(symbol)
             outs == NewMidiOuts(h.jack_midi, name)
             entry == IF outs # {}
                      THEN MidiDevice(symbol, CHOOSE s \in outs : TRUE, name)
                      ELSE MidiDevice(symbol, "", name)
         IN IF name \notin OldNames(hw.midi_ins) \/ symbol \in cur
            THEN load_register_devices(h, hw, Tail(ins), cur)
            ELSE load_register_devices(
                     msg_callback([h EXCEPT !.midiports = Append(@, entry)],
                                  [Msg0 EXCEPT !.k = "add_hw_port", !.sym = symbol]),
                     hw, Tail(ins), cur \cup {symbol})

RECURSIVE load_missing_devices(_, _, _, _)
\* load: "try to find old devices that are not available right now"
load_missing_devices(h, hw, olds, cur) ==
    IF olds = <<>> THEN h
    ELSE LET symbol == Head(olds).symbol
             name == Head(olds).name
             entry == IF name \in OldNames(hw.midi_outs)
                      THEN MidiDevice(symbol, OldSymbol(hw.midi_outs, name), name)
                      ELSE MidiDevice(symbol, "", name)
         IN IF symbol \in cur \/ NewMidiOuts(h.jack_midi, name) # {}
            THEN load_missing_devices(h, hw, Tail(olds), cur)
            ELSE load_missing_devices([h EXCEPT !.midiports = Append(@, entry)],
                                      hw, Tail(olds), cur)

\* load: the MIDI devices of the bundle (host.py:1254-1326)
load_midiports(h, hw) ==
    LET reg(x) == load_register_devices(
                      x, hw, SetToSeq({s \in x.jack_midi : ~JackIsOutput(s)}),
                      CurMidiSymbols(x.midiports))
        outs(x) == SetToSeq({s \in x.jack_midi :
                                /\ JackIsOutput(s)
                                /\ get_jack_port_alias(s) \in OldNames(hw.midi_outs)
                                /\ s \notin reg(h).cur})
        st_outs(x) == [x EXCEPT !.msgs = @ \o [k \in 1..Len(outs(x)) |->
                          [Msg0 EXCEPT !.k = "add_hw_port", !.sym = outs(x)[k]]]]
    IN st_outs(load_missing_devices(reg(h).h, hw, hw.midi_ins, reg(h).cur))

\* load: one connection of the bundle with its MIDI ports mapped to the
\* ports JACK has now. now is doConnectionNow, aliases the device names.
MappedEdge(jm, hw, c) ==
    LET srcOld == c[1][1] = "/graph" /\ c[1][2] \in OldSymbols(hw.midi_ins)
        tgtOld == c[2][1] = "/graph" /\ c[2][2] \in OldSymbols(hw.midi_outs)
        alias1 == IF srcOld THEN OldName(hw.midi_ins, c[1][2]) ELSE ""
        alias2 == IF tgtOld THEN OldName(hw.midi_outs, c[2][2]) ELSE ""
        srcNow == srcOld /\ NewMidiIns(jm, alias1) # {}
        tgtNow == tgtOld /\ NewMidiOuts(jm, alias2) # {}
    IN [edge |-> << IF srcNow
                    THEN <<"/graph", CHOOSE s \in NewMidiIns(jm, alias1) : TRUE>>
                    ELSE c[1],
                    IF tgtNow
                    THEN <<"/graph", CHOOSE s \in NewMidiOuts(jm, alias2) : TRUE>>
                    ELSE c[2] >>,
        now |-> (srcOld => srcNow) /\ (tgtOld => tgtNow),
        aliases |-> {alias1, alias2} \ {""}]

\* the connections of the bundle that load makes at once
NowEdges(jm, hw, cs) ==
    LET all == [k \in 1..Len(cs) |-> MappedEdge(jm, hw, cs[k])]
        now == SelectSeq(all, LAMBDA e : e.now)
    IN [k \in 1..Len(now) |-> now[k].edge]

\* the connections of the bundle that wait for a MIDI port
PendingEdges(jm, hw, cs) ==
    LET all == [k \in 1..Len(cs) |-> MappedEdge(jm, hw, cs[k])]
    IN SelectSeq(all, LAMBDA e : ~e.now /\ e.aliases # {})

RECURSIVE load_pending(_, _)
\* load: a connection that cannot be made is kept by the devices it names
load_pending(h, es) ==
    IF es = <<>> \/ h.exc THEN h
    ELSE load_pending(
             [h EXCEPT !.midiports =
                 [k \in 1..Len(@) |->
                     IF @[k].alias \in Head(es).aliases
                     THEN [@[k] EXCEPT !.conns = Append(@, Head(es).edge)]
                     ELSE @[k]]],
             Tail(es))

RECURSIVE appeared_conns(_, _, _, _, _, _)
\* midi_port_appeared: the pending connections of device i, last one first
appeared_conns(h, i, k, oldnode, newnode, jack_ok) ==
    IF k = 0 \/ h.exc THEN h
    ELSE LET c == h.midiports[i].conns[k]
             connection == << IF c[1] = oldnode THEN newnode ELSE c[1],
                              IF c[1] # oldnode /\ c[2] = oldnode THEN newnode
                              ELSE c[2] >>
             st_rename(x) == [x EXCEPT !.midiports[i].conns[k] = connection]
             st_connect(x) ==
                 msg_callback(
                     [x EXCEPT !.connections = Append(@, connection),
                               !.midiports[i].conns =
                                   [j \in 1..(Len(@) - 1) |->
                                       IF j < k THEN @[j] ELSE @[j + 1]]],
                     [Msg0 EXCEPT !.k = "connect", !.pa = connection[1],
                                  !.pb = connection[2]])
         IN appeared_conns(
                IF newnode \notin {connection[1], connection[2]} THEN st_rename(h)
                ELSE IF \/ ~can_fix_port(h.mapper, connection[1])
                        \/ ~can_fix_port(h.mapper, connection[2])
                THEN raise(st_rename(h))
                ELSE IF ~jack_ok THEN st_rename(h)
                ELSE st_connect(st_rename(h)),
                i, k - 1, oldnode, newnode, jack_ok)

\* midi_port_appeared(name, isOutput): JACK registered a MIDI hardware port.
\* jack_ok is the answer of connect_jack_ports.
midi_port_appeared(h, name, isOutput, jack_ok) ==
    LET alias == get_jack_port_alias(name)
        found == {k \in 1..Len(h.midiports) : h.midiports[k].alias = alias}
        i == CHOOSE k \in found : \A j \in found : k <= j
        entry == h.midiports[i]
        swapOut == entry.outs # "" /\ isOutput
        oldnode == <<"/graph", IF swapOut THEN entry.outs ELSE entry.ins>>
        st_symbol(x) ==
            msg_callback(
                [x EXCEPT !.midiports[i] =
                    IF swapOut THEN [@ EXCEPT !.outs = name]
                    ELSE [@ EXCEPT !.ins = name]],
                [Msg0 EXCEPT !.k = "add_hw_port", !.sym = name])
    IN IF alias = "" \/ found = {} THEN h
       ELSE appeared_conns(st_symbol(h), i, Len(entry.conns), oldnode,
                           <<"/graph", name>>, jack_ok)

load_connections(h, cs) ==
    IF cs = <<>> \/ h.exc THEN h
    ELSE LET port_from == Head(cs)[1]
             port_to == Head(cs)[2]
             st_send(x) ==
                 send_next(x, [Req0 EXCEPT
                     !.cmd = "connect",
                     !.a = _fix_host_connection_port(h.mapper, port_from),
                     !.b = _fix_host_connection_port(h.mapper, port_to)])
             st_store(x) ==
                 IF x.exc THEN x
                 ELSE msg_callback(
                        [x EXCEPT !.connections = Append(@, <<port_from, port_to>>)],
                        [Msg0 EXCEPT !.k = "connect", !.pa = port_from,
                                     !.pb = port_to])
         IN load_connections(
                IF ~can_fix_port(h.mapper, port_from) \/ ~can_fix_port(h.mapper, port_to)
                THEN h
                ELSE st_store(st_send(h)),
                Tail(cs))

\* _load_addressings: the loop over used_actuators, one _address_next after
\* the other
_load_addressings_next(h, f, cb, ok) ==
    IF f.lst = <<>> THEN h
    ELSE _address_next(h, Head(f.lst),
                       <<[f EXCEPT !.k = "_load_addressings.next", !.lst = Tail(@)]>>)

RECURSIVE _load_addressings_addrs(_, _, _)
\* _load_addressings: the loop over data[actuator_uri]
_load_addressings_addrs(h, actuator_uri, addrs) ==
    IF addrs = <<>> \/ h.exc THEN h
    ELSE LET addr == Head(addrs)
         IN IF ~knows_instance(h.mapper, addr.instance)
            THEN _load_addressings_addrs(h, actuator_uri, Tail(addrs))
            ELSE LET iid == get_id_without_creating(h.mapper, addr.instance)
                 IN IF \/ iid \notin DOMAIN h.plugins
                       \/ /\ addr.port \notin {":bypass", ":presets"}
                          /\ addr.port \notin DOMAIN h.plugins[iid].ports
                    THEN raise(h)
                    ELSE _load_addressings_addrs(
                             address(h, addr.instance, addr.port, actuator_uri,
                                     addr.label, addr.minimum, addr.maximum,
                                     addr.steps, <<>>, TRUE),
                             actuator_uri, Tail(addrs))

RECURSIVE _load_addressings_data(_, _)
\* _load_addressings: the loop over the actuators of addressings.json
_load_addressings_data(h, data) ==
    IF data = <<>> \/ h.exc THEN h
    ELSE _load_addressings_data(
             _load_addressings_addrs(h, Head(data).actuator_uri, Head(data).addrs),
             Tail(data))

\* the actuators _load_addressings moves on afterwards
LoadUsedActuators(m, data) ==
    LET cited == SelectSeq(data, LAMBDA d :
                    \E k \in 1..Len(d.addrs) : knows_instance(m, d.addrs[k].instance))
    IN Distinct([k \in 1..Len(cited) |-> cited[k].actuator_uri])

\* _load_addressings(bundlepath)
_load_addressings(h, bundlepath) ==
    LET st_next(x) ==
            IF x.exc THEN x
            ELSE _load_addressings_next(
                     x, [Frame0 EXCEPT
                            !.lst = LoadUsedActuators(
                                        h.mapper, BundleInfoOf(h, bundlepath).addressings)],
                     <<>>, 1)
    IN st_next(_load_addressings_data(h, BundleInfoOf(h, bundlepath).addressings))

\* history: the last two elements of a list after an append
LastTwo(s, x) == IF Len(s) < 2 THEN Append(s, x) ELSE <<s[2], x>>

\* load(bundlepath, isDefault); an exception of the _load_addressings
\* coroutine stays in its future
load(h, bundlepath, isDefault) ==
    LET st_start(x) ==
            msg_callback([x EXCEPT !.reloaded = LastTwo(@, bundlepath)],
                         [Msg0 EXCEPT !.k = "loading_start"])
        st_addressings(x) ==
            IF x.exc \/ ~x.hmi_initialized THEN x
            ELSE [_load_addressings(x, bundlepath) EXCEPT !.exc = FALSE]
        st_end(x) ==
            IF x.exc THEN x
            ELSE [msg_callback(x, [Msg0 EXCEPT !.k = "loading_end"]) EXCEPT
                     !.pedalboard_modified = FALSE,
                     !.pedalboard_path = IF isDefault THEN "" ELSE bundlepath]
    IN st_end(st_addressings(
           load_pending(
               load_connections(
                   load_plugins(load_midiports(st_start(h), BundleHardwareOf(h, bundlepath)),
                                BundleInfoOf(h, bundlepath).plugins),
                   NowEdges(h.jack_midi, BundleHardwareOf(h, bundlepath),
                            BundleInfoOf(h, bundlepath).connections)),
               PendingEdges(h.jack_midi, BundleHardwareOf(h, bundlepath),
                            BundleInfoOf(h, bundlepath).connections))))
\* get_addressings(): the content of addressings.json
get_addressings(h) ==
    LET uris == SetToSeq(DOMAIN h.addressings)
        saved(a) == [instance |-> get_instance(h.mapper, a.instance_id),
                     port |-> a.port, label |-> a.label, minimum |-> a.minimum,
                     maximum |-> a.maximum, steps |-> a.steps]
    IN [k \in 1..Len(uris) |->
           [actuator_uri |-> uris[k],
            addrs |-> [j \in 1..Len(h.addressings[uris[k]].addrs) |->
                          saved(h.addressings[uris[k]].addrs[j])]]]

\* get_addressings raises the KeyError of mapper.get_instance
get_addressings_raises(h) ==
    \E u \in DOMAIN h.addressings : \E j \in 1..Len(h.addressings[u].addrs) :
        ~knows_id(h.mapper, h.addressings[u].addrs[j].instance_id)

\* save_state_mainfile: a control input of a block as the bundle reader gives
\* it back; the midi:binding is written when -1 is not in the tuple
SavedPort(plugin, symbol) ==
    [symbol |-> symbol, value |-> plugin.ports[symbol],
     midiCC |-> IF -1 \notin Range(plugin.midiCCs[symbol])
                THEN plugin.midiCCs[symbol] ELSE NoCC]

\* save_state_mainfile: a block as the bundle reader gives it back
SavedBlock(plugin) ==
    LET symbols == SetToSeq(DOMAIN plugin.ports)
    IN [instance |-> plugin.instance, uri |-> plugin.uri,
        bypassed |-> plugin.bypassed,
        bypassCC |-> IF -1 \notin Range(plugin.bypassCC)
                     THEN plugin.bypassCC ELSE NoBypassCC,
        preset |-> plugin.preset,
        ports |-> [k \in 1..Len(symbols) |-> SavedPort(plugin, symbols[k])],
        x |-> plugin.x, y |-> plugin.y]

\* save_state_mainfile: the MIDI ports of the session written as hardware
SavedHardware(mp) ==
    LET outs == SelectSeq(mp, LAMBDA d : d.outs # "")
    IN [midi_ins |-> [k \in 1..Len(mp) |-> [symbol |-> mp[k].ins, name |-> mp[k].alias]],
        midi_outs |-> [k \in 1..Len(outs) |->
                          [symbol |-> outs[k].outs, name |-> outs[k].alias]]]

\* save_state_mainfile raises the KeyError of plugin['midiCCs'][symbol]
save_state_mainfile_raises(h) ==
    \E iid \in DOMAIN h.plugins :
        DOMAIN h.plugins[iid].ports \ DOMAIN h.plugins[iid].midiCCs # {}

\* save_state_mainfile(bundlepath, title, titlesym)
save_state_mainfile(h) ==
    LET ids == SetToSeq(DOMAIN h.plugins)
    IN [h EXCEPT !.saved_bundle.plugins =
                     [k \in 1..Len(ids) |-> SavedBlock(h.plugins[ids[k]])],
                 !.saved_bundle.connections = h.connections,
                 !.saved_bundle.hardware = SavedHardware(h.midiports)]

\* save(title, asNew) into a new bundle, the path of which is "saved"
save(h, title, asNew) ==
    LET st_path(x) == [x EXCEPT !.pedalboard_path = "saved",
                                !.pedalboard_modified = FALSE]
        st_addressings(x) ==
            IF get_addressings_raises(x) THEN raise(x)
            ELSE [x EXCEPT !.saved_bundle.addressings = get_addressings(x)]
        st_mainfile(x) ==
            IF x.exc THEN x
            ELSE IF save_state_mainfile_raises(x) THEN raise(x)
            ELSE save_state_mainfile(x)
    IN st_mainfile(st_addressings(st_path(h)))
----------------------------------------------------------------------------
(* HMIHandlers *)

\* the pedalboards of a bank id within bounds
PedalboardsOf(bank) ==
    IF bank = 0 THEN allpedalboards ELSE banks[bank].pedalboards

NavigateFootswitches(bank) ==
    IF bank = 0 THEN FALSE ELSE banks[bank].navigateFootswitches

\* setNavigateWithFootswitches.foot2_callback(ok)
foot2_callback(h, f, cb, ok) ==
    hmi_send(h, [HmiCall0 EXCEPT
        !.call = "bank_config", !.act = "/hmi/footswitch2",
        !.val = IF f.n1 = 1 THEN BANK_CONFIG_PEDALBOARD_UP ELSE BANK_CONFIG_NOTHING,
        !.cb = cb])

\* setNavigateWithFootswitches(enabled, callback)
setNavigateWithFootswitches(h, enabled, cb) ==
    hmi_send(h, [HmiCall0 EXCEPT
        !.call = "bank_config", !.act = "/hmi/footswitch1",
        !.val = IF enabled THEN BANK_CONFIG_PEDALBOARD_DOWN ELSE BANK_CONFIG_NOTHING,
        !.cb = <<[Frame0 EXCEPT !.k = "setNavigateWithFootswitches.foot2_callback",
                                !.n1 = IF enabled THEN 1 ELSE 0]>> \o cb])

\* hmi_load_bank_pedalboard.hmi_clear_callback(ok)
hmi_clear_callback(h, f, cb, ok) ==
    hmi_send(h, [HmiCall0 EXCEPT
        !.call = "clear",
        !.cb = <<[f EXCEPT !.k = "hmi_load_bank_pedalboard.footswitch_callback"]>>])

\* hmi_load_bank_pedalboard.footswitch_callback(ok)
footswitch_callback(h, f, cb, ok) ==
    setNavigateWithFootswitches(
        h, NavigateFootswitches(f.n1),
        <<[f EXCEPT !.k = "hmi_load_bank_pedalboard.load_callback"]>>)

\* hmi_load_bank_pedalboard.load_callback(ok)
load_callback(h, f, cb, ok) ==
    send_next(load([h EXCEPT !.bank_id = f.n1], PedalboardsOf(f.n1)[f.n2 + 1], FALSE),
              [Req0 EXCEPT
                  !.cmd = "midi_program_listen",
                  !.val = IF NavigateFootswitches(f.n1) THEN 0 ELSE 1,
                  !.cc = <<15>>, !.dt = "boolean",
                  !.cb = <<[f EXCEPT !.k = "hmi_load_bank_pedalboard.loaded_callback"]>>])

\* len('"%s" %i' % (title, num)) for a title of the length given
ItemLen(titlelen, num) == titlelen + 3 + (IF num < 10 THEN 1 ELSE 2)

RECURSIVE list_items(_, _, _, _)
\* hmi_list_bank_pedalboards: the loop over the pedalboards. A pedalboard is
\* the length of its title without the quotes; an item of the reply is
\* <<length of the title listed, num>>.
list_items(pedalboards, num, numBytesFree, items) ==
    IF pedalboards = <<>> \/ num > 50 THEN items
    ELSE LET title == Min(Head(pedalboards), 31)
             dataLen == ItemLen(title, num)
         IN IF numBytesFree - dataLen - 2 < 0 THEN items
            ELSE list_items(Tail(pedalboards), num + 1, numBytesFree - (dataLen + 1),
                            Append(items, <<title, num>>))

\* hmi_list_bank_pedalboards(bank_id, callback); pedalboards is the content
\* of self.allpedalboards or of the bank
hmi_list_bank_pedalboards(h, bank, pedalboards, cb) ==
    IF bank < 0 \/ bank > Len(banks)
    THEN Call(h, cb, [ok |-> FALSE, data |-> <<>>])
    ELSE Call(h, cb, [ok |-> TRUE,
                      data |-> list_items(pedalboards, 0, 1024 - 64, <<>>)])

\* check_message, cmd == "midi_program": load_callback(ok)
midi_program_load_callback(h, f, cb, ok) ==
    load([h EXCEPT !.bank_id = f.n1], f.uri, FALSE)

\* check_message, cmd == "midi_program": hmi_clear_callback(ok)
midi_program_hmi_clear_callback(h, f, cb, ok) ==
    hmi_send(h, [HmiCall0 EXCEPT
        !.call = "clear",
        !.cb = <<[f EXCEPT !.k = "midi_program.load_callback"]>>])

\* check_message, cmd == "midi_program"
event_midi_program(h, program) ==
    LET bank == h.bank_id
        pedalboards == IF bank > 0 /\ bank <= Len(banks)
                       THEN banks[bank].pedalboards ELSE allpedalboards
    IN IF program >= 0 /\ program < Len(pedalboards)
       THEN reset(h, <<[Frame0 EXCEPT !.k = "midi_program.hmi_clear_callback",
                                      !.n1 = bank, !.n2 = program,
                                      !.uri = pedalboards[program + 1]]>>)
       ELSE h

\* check_message, cmd == "data_finish": send_output_data_ready()
event_data_finish(h) ==
    send_notmodified(h, [Req0 EXCEPT !.cmd = "output_data_ready", !.dt = "boolean"])

\* check_message, any other cmd: logging.error
event_unrecognized(h) == h

\* hmi_load_bank_pedalboard(bank_id, pedalboard_id, callback)

hmi_load_bank_pedalboard(h, bank, pedalboard, cb) ==
    LET delayed == cb # <<>> /\ cb[1].k = "hmi_load_bank_pedalboard.loaded2_callback"
        st_reset(x) ==
            IF x.exc THEN x
            ELSE reset(x, <<[Frame0 EXCEPT
                     !.k = "hmi_load_bank_pedalboard.hmi_clear_callback",
                     !.n1 = bank, !.n2 = pedalboard]>>)
    IN IF bank < 0 \/ bank > Len(banks) THEN Call(h, cb, 0)
       ELSE IF h.next_hmi_pedalboard # <<>>
       THEN Call([h EXCEPT !.next_hmi_pedalboard = <<bank, pedalboard>>,
                           !.lastreq = <<bank, pedalboard, 1>>], cb, 0)
       ELSE IF pedalboard < 0 \/ pedalboard >= Len(PedalboardsOf(bank))
       THEN Call(h, cb, 0)
       ELSE st_reset(Call([h EXCEPT !.next_hmi_pedalboard = <<bank, pedalboard>>,
                                    !.lastreq = IF delayed THEN @
                                                ELSE <<bank, pedalboard, 0>>], cb, 1))

\* a loaded_callback that forgets the stashed request
loaded_callback_forgetting(h, f, cb, ok) == [h EXCEPT !.next_hmi_pedalboard = <<>>]

\* hmi_load_bank_pedalboard.loaded_callback(ok)
loaded_callback(h, f, cb, ok) ==
    LET next_pedalboard == h.next_hmi_pedalboard
        h1 == [h EXCEPT !.next_hmi_pedalboard = <<>>]
    IN IF next_pedalboard = <<f.n1, f.n2>> THEN h1
       ELSE IF next_pedalboard = <<>> THEN raise(h1)
       ELSE hmi_load_bank_pedalboard(
                h1, next_pedalboard[1], next_pedalboard[2],
                <<[Frame0 EXCEPT !.k = "hmi_load_bank_pedalboard.loaded2_callback"]>>)

\* hmi_load_bank_pedalboard.loaded2_callback(ok): it only prints
loaded2_callback(h, f, cb, ok) == h

\* hmi_parameter_set that would take an index above the range for the last
\* preset of mapPresets
hmi_parameter_set_clamping(h, iid, portsymbol, value, cb) ==
    LET instance == get_instance(h.mapper, iid)
        plugin == h.plugins[iid]
        bypassed == (value # 0)
        st_bypassed(x) ==
            IF x.exc THEN x
            ELSE msg_callback(x, [Msg0 EXCEPT
                    !.k = "param_set", !.inst = instance, !.sym = ":bypass",
                    !.val = IF bypassed THEN 1 ELSE 0])
        st_enabled(x) ==
            IF x.exc \/ plugin.designations[1] = "" \/ iid \notin DOMAIN x.plugins
            THEN x
            ELSE msg_callback(
                    [x EXCEPT !.plugins[iid] = BypassPlugin(@, bypassed)],
                    [Msg0 EXCEPT !.k = "param_set", !.inst = instance,
                                 !.sym = plugin.designations[1],
                                 !.val = EnabledValue(bypassed)])
        st_port(x) ==
            IF x.exc THEN x
            ELSE msg_callback(x, [Msg0 EXCEPT !.k = "param_set", !.inst = instance,
                                              !.sym = portsymbol, !.val = value])
    IN IF ~knows_id(h.mapper, iid) \/ iid \notin DOMAIN h.plugins THEN raise(h)
       ELSE IF portsymbol = ":bypass"
       THEN st_enabled(st_bypassed(send_modified(
                [h EXCEPT !.plugins[iid].bypassed = bypassed],
                [Req0 EXCEPT !.cmd = "bypass", !.iid = iid,
                             !.val = IF bypassed THEN 1 ELSE 0,
                             !.dt = "boolean", !.cb = cb])))
       ELSE IF portsymbol = ":presets"
       THEN IF value < 0 \/ plugin.mapPresets = <<>> THEN Call(h, cb, 0)
            ELSE preset_load(h, instance,
                             plugin.mapPresets[Min(value + 1, Len(plugin.mapPresets))],
                             cb)
       ELSE st_port(send_modified(
                [h EXCEPT !.plugins[iid].ports = DictUpdate(@, (portsymbol :> value))],
                [Req0 EXCEPT !.cmd = "param_set", !.iid = iid,
                             !.sym = portsymbol, !.val = value,
                             !.dt = "boolean", !.cb = cb]))

\* hmi_parameter_set(instance_id, portsymbol, value, callback)
hmi_parameter_set(h, iid, portsymbol, value, cb) ==
    LET instance == get_instance(h.mapper, iid)
        plugin == h.plugins[iid]
        bypassed == (value # 0)
        st_bypassed(x) ==
            IF x.exc THEN x
            ELSE msg_callback(x, [Msg0 EXCEPT
                    !.k = "param_set", !.inst = instance, !.sym = ":bypass",
                    !.val = IF bypassed THEN 1 ELSE 0])
        st_enabled(x) ==
            IF x.exc \/ plugin.designations[1] = "" \/ iid \notin DOMAIN x.plugins
            THEN x
            ELSE msg_callback(
                    [x EXCEPT !.plugins[iid] = BypassPlugin(@, bypassed)],
                    [Msg0 EXCEPT !.k = "param_set", !.inst = instance,
                                 !.sym = plugin.designations[1],
                                 !.val = EnabledValue(bypassed)])
        st_port(x) ==
            IF x.exc THEN x
            ELSE msg_callback(x, [Msg0 EXCEPT !.k = "param_set", !.inst = instance,
                                              !.sym = portsymbol, !.val = value])
    IN IF ~knows_id(h.mapper, iid) \/ iid \notin DOMAIN h.plugins THEN raise(h)
       ELSE IF portsymbol = ":bypass"
       THEN st_enabled(st_bypassed(send_modified(
                [h EXCEPT !.plugins[iid].bypassed = bypassed],
                [Req0 EXCEPT !.cmd = "bypass", !.iid = iid,
                             !.val = IF bypassed THEN 1 ELSE 0,
                             !.dt = "boolean", !.cb = cb])))
       ELSE IF portsymbol = ":presets"
       THEN IF value < 0 \/ value >= Len(plugin.mapPresets) THEN Call(h, cb, 0)
            ELSE preset_load(h, instance, plugin.mapPresets[value + 1], cb)
       ELSE st_port(send_modified(
                [h EXCEPT !.plugins[iid].ports = DictUpdate(@, (portsymbol :> value))],
                [Req0 EXCEPT !.cmd = "param_set", !.iid = iid,
                             !.sym = portsymbol, !.val = value,
                             !.dt = "boolean", !.cb = cb]))

\* the capture ports JACK has: system:capture_1 and system:capture_2
CapturePorts == {1, 2}

\* hmi_tuner_input(input_port, callback). disconnect_jack_ports and
\* connect_jack_ports fail for a port JACK does not have.
hmi_tuner_input(h, input_port, cb) ==
    IF 0 <= input_port /\ input_port > 2 THEN Call(h, cb, 0)
    ELSE Call([h EXCEPT !.jack_tuner = IF input_port \in CapturePorts THEN input_port
                                       ELSE IF @ = h.current_tuner_port THEN 0
                                       ELSE @,
                        !.current_tuner_port = input_port],
              cb, 1)

RECURSIVE hmi_reset_ports(_, _, _)
\* hmi_reset_current_pedalboard: the loop over p['ports']
hmi_reset_ports(h, iid, ports) ==
    IF ports = <<>> \/ h.exc THEN h
    ELSE hmi_reset_ports(
             send_next([h EXCEPT !.plugins[iid].ports =
                                    DictUpdate(@, (Head(ports).symbol :> Head(ports).value))],
                       [Req0 EXCEPT !.cmd = "param_set", !.iid = iid,
                                    !.sym = Head(ports).symbol, !.val = Head(ports).value]),
             iid, Tail(ports))

\* hmi_reset_current_pedalboard: the actuators one plugin adds to
\* used_actuators, in order
ResetUsedActuators(plugin, p) ==
    LET syms == <<":bypass", ":presets">>
                \o [k \in 1..Len(p.ports) |-> p.ports[k].symbol]
        addressed == SelectSeq(syms, LAMBDA s : AddressingOf(plugin, s) # <<>>)
    IN [k \in 1..Len(addressed) |-> AddressingOf(plugin, addressed[k])[1].actuator_uri]

RECURSIVE hmi_reset_plugins(_, _, _)
\* hmi_reset_current_pedalboard: the loop over pb_values; the host record
\* and used_actuators afterwards
hmi_reset_plugins(h, ps, used) ==
    IF ps = <<>> \/ h.exc THEN [h |-> h, used |-> used]
    ELSE LET p == Head(ps)
             iid == get_id(h.mapper, p.instance)
             st_bypass(x) ==
                 send_next([x EXCEPT !.plugins[iid].bypassed = p.bypassed],
                           [Req0 EXCEPT !.cmd = "bypass", !.iid = iid,
                                        !.val = IF p.bypassed THEN 1 ELSE 0])
             st_preset(x) ==
                 IF x.exc \/ p.preset = "" THEN x
                 ELSE send_next([x EXCEPT !.plugins[iid].preset = p.preset],
                                [Req0 EXCEPT !.cmd = "preset_load", !.iid = iid,
                                             !.uri = p.preset])
         IN IF iid \notin DOMAIN h.plugins
            THEN [h |-> raise([h EXCEPT !.mapper = get_id_mapper(@, p.instance)]),
                  used |-> used]
            ELSE hmi_reset_plugins(
                     hmi_reset_ports(
                         st_preset(st_bypass(
                             [h EXCEPT !.mapper = get_id_mapper(@, p.instance)])),
                         iid, p.ports),
                     Tail(ps),
                     Distinct(used \o ResetUsedActuators(h.plugins[iid], p)))

\* hmi_reset_current_pedalboard: the loop over used_actuators, one
\* _addressing_load after the other
hmi_reset_next(h, f, cb, ok) ==
    IF f.lst = <<>> THEN h
    ELSE _addressing_load(h, Head(f.lst),
                          <<[f EXCEPT !.k = "hmi_reset_current_pedalboard.next",
                                      !.lst = Tail(@)]>>, NoValue, FALSE)

\* hmi_reset_current_pedalboard(callback)
hmi_reset_current_pedalboard(h, cb) ==
    LET st_cb(r) ==
            IF r.h.exc THEN r
            ELSE [r EXCEPT !.h = Call([r.h EXCEPT !.pedalboard_modified = FALSE], cb, 1)]
        st_next(r) ==
            IF r.h.exc THEN r.h
            ELSE hmi_reset_next(r.h, [Frame0 EXCEPT !.lst = r.used], <<>>, 1)
    IN st_next(st_cb(hmi_reset_plugins(h, BundleInfoOf(h, h.pedalboard_path).plugins, <<>>)))

----------------------------------------------------------------------------
(* Running a callback *)

\* callback(v): the head frame is the closure, the rest is the callback it
\* captured; the empty stack is "lambda r: None"
Call(h, cb, v) ==
    IF cb = <<>> \/ h.exc THEN h
    ELSE LET f == Head(cb)
             rest == Tail(cb)
         IN CASE f.k = "user" -> user_callback(h, f, v)
              [] f.k = "reset.host_callback" -> reset_host_callback(h, f, rest, v)
              [] f.k = "add_plugin.host_callback" -> add_plugin_host_callback(h, f, rest, v)
              [] f.k = "remove_plugin.next" -> remove_plugin_next(h, f, rest, v)
              [] f.k = "remove_plugin.hmi_callback" -> remove_plugin_hmi_callback(h, f, rest, v)
              [] f.k = "remove_plugin.host_callback" -> remove_plugin_host_callback(h, f, rest, v)
              [] f.k = "preset_load.host_callback" -> preset_load_host_callback(h, f, rest, v)
              [] f.k = "preset_load.preset_callback" -> preset_load_preset_callback(h, f, rest, v)
              [] f.k = "preset_load.next" -> preset_load_next(h, f, rest, v)
              [] f.k = "connect.host_callback" -> connect_host_callback(h, f, rest, v)
              [] f.k = "address.nextStepUnaddressing" -> address_nextStepUnaddressing(h, f, rest, v)
              [] f.k = "address.nextStepAddressing" -> address_nextStepAddressing(h, f, rest, v)
              [] f.k = "address.nextStepAddressing2" -> address_nextStepAddressing2(h, f, rest, v)
              [] f.k = "address.unaddressingStep1" -> address_unaddressingStep1(h, f, rest, v)
              [] f.k = "address.unaddressingStep2" -> address_unaddressingStep2(h, f, rest, v)
              [] f.k = "_load_addressings.next" -> _load_addressings_next(h, f, rest, v)
              [] f.k = "setNavigateWithFootswitches.foot2_callback" -> foot2_callback(h, f, rest, v)
              [] f.k = "hmi_load_bank_pedalboard.hmi_clear_callback" -> hmi_clear_callback(h, f, rest, v)
              [] f.k = "hmi_load_bank_pedalboard.footswitch_callback" -> footswitch_callback(h, f, rest, v)
              [] f.k = "hmi_load_bank_pedalboard.load_callback" -> load_callback(h, f, rest, v)
              [] f.k = "hmi_load_bank_pedalboard.loaded_callback" -> loaded_callback(h, f, rest, v)
              [] f.k = "hmi_load_bank_pedalboard.loaded2_callback" -> loaded2_callback(h, f, rest, v)
              [] f.k = "hmi_reset_current_pedalboard.next" -> hmi_reset_next(h, f, rest, v)
              [] f.k = "midi_program.hmi_clear_callback" -> midi_program_hmi_clear_callback(h, f, rest, v)
              [] f.k = "midi_program.load_callback" -> midi_program_load_callback(h, f, rest, v)
              [] f.k = "remove_plugin" -> remove_plugin(h, f.inst, rest)
              [] f.k = "disconnect" -> disconnect(h, f.pa, f.pb, rest, f.n1 = 1)
              [] f.k = "address" ->
                    address(h, f.inst, f.sym, f.act, f.label, f.n1, f.n2, f.steps,
                            rest, FALSE)
              [] f.k = "load" -> load(h, f.uri, FALSE)
              [] f.k = "hmi_load_bank_pedalboard" ->
                    hmi_load_bank_pedalboard(h, f.n1, f.n2, rest)
              [] f.k = "hmi_parameter_addressing_next" -> _address_next(h, f.act, rest)
              [] f.k = "hmi_parameter_addressing_prev" -> _address_prev(h, f.act, rest)
              [] f.k = "hmi_reset_current_pedalboard" ->
                    hmi_reset_current_pedalboard(h, rest)
----------------------------------------------------------------------------
(* The event loop: one action per handler *)

Instances == {"/graph/a", "/graph/b"}

SourcePorts == {<<"/graph", "capture_1">>, <<"/graph/a", "out">>}

TargetPorts == {<<"/graph", "playback_1">>, <<"/graph/a", "in">>, <<"/graph/b", "in">>}

Values == {0, 1}

\* the actuator uris a caller of address names: one of the hardware, one
\* the hardware lacks, and the special uri "null"
AddressTargets == {"/hmi/knob1", "/hmi/knob5", kNullAddressURI}

\* an API call is taken while the model's queues have room
CanTake ==
    /\ Len(queue) < MaxQueue
    /\ Len(hmiq) < MaxHmi
    /\ trace_on => nsub < MaxReq

\* the stream id the next socket pair gets
NextStream == 1 + Cardinality({s \in DOMAIN streams : streams[s].state # "unused"})

\* an uncaught exception of a stream callback closes the stream, whose close
\* callback runs
writer_after_callback(h, s) ==
    IF ~h.exc THEN h
    ELSE writer_connection_closed(
             [h EXCEPT !.streams[s] = [Stream0 EXCEPT !.state = "closed"],
                       !.nclose = IF h.trace_on THEN @ + 1 ELSE @])

reader_after_callback(h, s) ==
    IF ~h.exc THEN h
    ELSE reader_connection_closed([h EXCEPT !.rlive = @ \ {s}])

\* whether the engine has the JACK port a request names
EngineHasPort(eng, j) == j.kind = "effect" => j.id \in eng

\* whether the engine refuses the request w: it adds no instance number
\* twice, removes only what it holds and connects only ports it has
EngineRefuses(eng, w) ==
    \/ w.cmd = "add" /\ w.iid \in eng
    \/ w.cmd = "remove" /\ w.iid # -1 /\ w.iid \notin eng
    \/ w.cmd = "connect" /\ ~(EngineHasPort(eng, w.a) /\ EngineHasPort(eng, w.b))

\* whether resp, read with the datatype of m, reports a success
IsSuccess(m, resp) == IF m.dt = "int" THEN resp >= 0 ELSE resp # 0

\* what the engine may answer to the request w it received, as the
\* callback of m decodes it
EngineAnswers(eng, w, m) ==
    IF EngineRefuses(eng, w) /\ m.dt \in {"int", "boolean"}
    THEN {resp \in Answers(m) : ~IsSuccess(m, resp)}
    ELSE Answers(m)

\* the instances of the engine after it answered resp to the request w
EngineAfter(eng, w, m, resp) ==
    IF ~IsSuccess(m, resp) THEN eng
    ELSE IF w.cmd = "add" THEN eng \cup {w.iid}
    ELSE IF w.cmd = "remove" THEN IF w.iid = -1 THEN {} ELSE eng \ {w.iid}
    ELSE eng

\* the engine answers the oldest request of a write stream
Respond ==
    \E s \in DOMAIN streams :
        /\ streams[s].state = "open"
        /\ streams[s].rd # NoReq
        /\ LET w == Head(streams[s].wire)
               m == streams[s].rd
           IN \E resp \in EngineAnswers(engine, w, m) :
                 Commit(writer_after_callback(
                     check_response([H EXCEPT !.engine = EngineAfter(@, w, m, resp)],
                                    s, resp), s))

\* the event loop runs the handler of a request: the frame f names the
\* handler and holds its arguments, cb is the callback of the caller
Run(h, f, cb) == Call(h, <<f>> \o cb, 1)

\* the HMI acknowledges its oldest call
\* the engine answers the oldest request of a write stream with a reply that
\* does not start with "resp": check_response hands process_resp(None,
\* datatype) to the callback. Only replies to bypass and param_set are
\* garbled, whose callbacks are the caller's.
RespondGarbled ==
    \E s \in DOMAIN streams :
        /\ streams[s].state = "open"
        /\ streams[s].rd # NoReq
        /\ streams[s].rd.dt # "string"
        /\ streams[s].rd.cmd \in {"bypass", "param_set"}
        /\ Commit(writer_after_callback(check_response(H, s, Null), s))

HmiAck ==
    /\ hmiq # <<>>
    /\ Commit(Call([H EXCEPT !.hmiq = Tail(@)], Head(hmiq).cb, 1))

\* a write stream closes
WriterClosed ==
    \E s \in DOMAIN streams :
        /\ streams[s].state \in {"connecting", "open"}
        /\ Commit(writer_connection_closed(
               [H EXCEPT !.streams[s] = [Stream0 EXCEPT !.state = "closed"],
                         !.nclose = IF trace_on THEN @ + 1 ELSE @]))

\* a read stream closes
ReaderClosed ==
    \E s \in rlive : Commit(reader_connection_closed([H EXCEPT !.rlive = @ \ {s}]))

\* a websocket opens
WebsocketOpen ==
    /\ (readsock = 0 \/ writesock = 0) => NextStream <= MaxStreams
    /\ Commit(open_connection_if_needed(H, TRUE, NextStream))

\* the connect of a write stream completes
WriterConnected ==
    \E s \in DOMAIN streams :
        /\ streams[s].state = "connecting"
        /\ Commit(writer_after_callback(
               writer_check_response([H EXCEPT !.streams[s].state = "open"], s), s))

\* events of the read channel
EvParamSet(ids, symbols) ==
    \E s \in rlive, iid \in ids, sym \in symbols, v \in Values :
        Commit(event_param_set(H, iid, sym, v))

EvOutputSet(ids) ==
    \E s \in rlive, iid \in ids, v \in Values :
        Commit(event_output_set(H, iid, "out", v))

EvMidiProgram(programs) ==
    /\ CanTake
    /\ \E s \in rlive, program \in programs :
          Commit(reader_after_callback(event_midi_program(H, program), s))

EvDataFinish ==
    /\ CanTake
    /\ \E s \in rlive : Commit(reader_after_callback(event_data_finish(H), s))

EvUnrecognized ==
    \E s \in rlive : Commit(reader_after_callback(event_unrecognized(H), s))

EvMidiMapped(ids, symbols, ranges) ==
    \E s \in rlive, iid \in ids, sym \in symbols, v \in Values, rng \in ranges :
        Commit(reader_after_callback(
                   event_midi_mapped(H, iid, sym, 0, 7, v, rng[1], rng[2]), s))

\* calls of the web API
ApiReset == CanTake /\ Commit(reset(H, UserCb("reset")))

ApiAddPlugin(instances, uris) ==
    /\ CanTake
    /\ \E instance \in instances, uri \in uris :
          Commit(add_plugin(H, instance, uri, UserCb("add_plugin")))

ApiRemovePlugin(instances) ==
    /\ CanTake
    /\ \E instance \in instances :
          Commit(Run(H, [Frame0 EXCEPT !.k = "remove_plugin", !.inst = instance],
                     UserCb("remove_plugin")))

ApiBypass(instances) ==
    /\ CanTake
    /\ \E instance \in instances, bypassed \in BOOLEAN :
          Commit(bypass(H, instance, bypassed, UserCb("bypass")))

ApiParamSet(instances, symbols) ==
    /\ CanTake
    /\ \E instance \in instances, sym \in symbols, v \in Values :
          Commit(param_set(H, <<instance, sym>>, v, UserCb("param_set")))

ApiSetPosition(instances) ==
    \E instance \in instances, x \in Values, y \in Values :
        Commit(set_position(H, instance, x, y))

ApiPresetLoad(instances, uris) ==
    /\ CanTake
    /\ \E instance \in instances, uri \in uris :
          Commit(preset_load(H, instance, uri, UserCb("preset_load")))

ApiConnect(sources, targets) ==
    /\ CanTake
    /\ \E port_from \in sources, port_to \in targets :
          Commit(connect(H, port_from, port_to, UserCb("connect")))

ApiDisconnect(sources, targets) ==
    \E port_from \in sources, port_to \in targets, jack_ok \in {0, 1} :
        Commit(Run(H, [Frame0 EXCEPT !.k = "disconnect", !.pa = port_from,
                                     !.pb = port_to, !.n1 = jack_ok],
                   UserCb("disconnect")))

ApiAddress(instances, ports, uris) ==
    /\ CanTake
    /\ \A u \in DOMAIN addressings : Len(addressings[u].addrs) < MaxRing
    /\ \E instance \in instances, port \in ports, uri \in uris :
          Commit(Run(H, [Frame0 EXCEPT !.k = "address", !.inst = instance,
                                       !.sym = port, !.act = uri, !.label = "L",
                                       !.n1 = 0, !.n2 = 1, !.steps = 1],
                     UserCb("address")))

\* address() with the MIDI-learn actuator and the range the mapping shall have
ApiMidiLearn(instances, ports, ranges) ==
    /\ CanTake
    /\ \E instance \in instances, port \in ports, rng \in ranges :
          Commit(Run(H, [Frame0 EXCEPT !.k = "address", !.inst = instance,
                                       !.sym = port, !.act = kMidiLearnURI,
                                       !.label = "L", !.n1 = rng[1], !.n2 = rng[2],
                                       !.steps = 1],
                     UserCb("address")))

\* address() with the null actuator: the binding of the port is removed.
ApiUnaddress(instances, ports) ==
    /\ CanTake
    /\ \E instance \in instances, port \in ports :
          Commit(Run(H, [Frame0 EXCEPT !.k = "address", !.inst = instance,
                                       !.sym = port, !.act = kNullAddressURI,
                                       !.label = "L", !.n1 = 0, !.n2 = 1,
                                       !.steps = 1],
                     UserCb("address")))

\* JACK registers a MIDI hardware port and tells the host.
\* whether the JACK name of one end of the edge is the port name
TouchesJackPort(m, ports, name) ==
    \E e \in {1, 2} : /\ _fix_host_connection_port(m, ports[e]).kind = "system"
                      /\ _fix_host_connection_port(m, ports[e]).sym = name

midi_port_deleted(h, name) ==
    LET removed_conns == SelectSeq(h.connections,
                             LAMBDA ports : TouchesJackPort(h.mapper, ports, name))
        kept == SelectSeq(h.connections,
                    LAMBDA ports : ~TouchesJackPort(h.mapper, ports, name))
        found == {k \in 1..Len(h.midiports) :
                     name \in {h.midiports[k].ins, h.midiports[k].outs}}
        i == CHOOSE k \in found : \A j \in found : k <= j
        st_pending(x) ==
            IF found = {} THEN x
            ELSE [x EXCEPT !.midiports[i].conns = @ \o removed_conns]
    IN IF \E k \in 1..Len(h.connections) :
             \/ ~can_fix_port(h.mapper, h.connections[k][1])
             \/ ~can_fix_port(h.mapper, h.connections[k][2])
       THEN raise(h)
       ELSE msg_callback(st_pending([h EXCEPT !.connections = kept]),
                         [Msg0 EXCEPT !.k = "remove_hw_port", !.sym = name])

JackMidiPortDeleted ==
    \E name \in jack_midi :
        Commit(midi_port_deleted([H EXCEPT !.jack_midi = @ \ {name}], name))

JackMidiPortAppeared ==
    \E name \in JackMidiPorts \ jack_midi, jack_ok \in BOOLEAN :
        Commit(midi_port_appeared([H EXCEPT !.jack_midi = @ \cup {name}],
                                  name, JackIsOutput(name), jack_ok))

\* save(title, asNew) of the web API
ApiSave == Commit(save(H, "T", TRUE))

ApiLoad(bundlepaths) ==
    /\ queue = <<>> /\ hmiq = <<>>
    /\ \A u \in DOMAIN addressings : Len(addressings[u].addrs) < MaxRing
    /\ Len(connections) < MaxEdges
    /\ \A k \in 1..Len(midiports) : Len(midiports[k].conns) < MaxEdges
    /\ \E bundlepath \in bundlepaths :
          Commit(Run(H, [Frame0 EXCEPT !.k = "load", !.uri = bundlepath], <<>>))

\* calls of the HMI
\* the HMI's "pedalboards" command for a bank that holds n pedalboards whose
\* titles have the length given
HmiListBankPedalboards(bankids, sizes, titlelens) ==
    \E bank \in bankids, n \in sizes, len \in titlelens :
        Commit(hmi_list_bank_pedalboards(H, bank, [k \in 1..n |-> len],
                                         UserCb("hmi_list_bank_pedalboards")))

HmiLoadBankPedalboard(bankids, pedalboardids) ==
    \E bank \in bankids, pedalboard \in pedalboardids :
        Commit(Run(H, [Frame0 EXCEPT !.k = "hmi_load_bank_pedalboard",
                                     !.n1 = bank, !.n2 = pedalboard],
                   UserCb("hmi_load_bank_pedalboard")))

HmiParameterSet(ids, symbols) ==
    /\ CanTake
    /\ \E iid \in ids, sym \in symbols, v \in Values :
          Commit(hmi_parameter_set(H, iid, sym, v, UserCb("hmi_parameter_set")))

\* the HMI's control_set of ":presets" with an index
HmiPresetSet(ids, indices) ==
    /\ CanTake
    /\ \E iid \in ids, v \in indices :
          Commit(hmi_parameter_set(H, iid, ":presets", v, UserCb("hmi_parameter_set")))

\* the HMI's "tuner_input" command
HmiTunerInput(ports) ==
    \E input_port \in ports :
        Commit(hmi_tuner_input(H, input_port, UserCb("hmi_tuner_input")))

HmiAddressingNext(uris) ==
    /\ CanTake
    /\ \E uri \in uris :
          Commit(Run(H, [Frame0 EXCEPT !.k = "hmi_parameter_addressing_next",
                                       !.act = uri],
                     UserCb("hmi_parameter_addressing_next")))

HmiAddressingPrev(uris) ==
    /\ CanTake
    /\ \E uri \in uris :
          Commit(Run(H, [Frame0 EXCEPT !.k = "hmi_parameter_addressing_prev",
                                       !.act = uri],
                     UserCb("hmi_parameter_addressing_prev")))

HmiResetCurrentPedalboard ==
    /\ CanTake
    /\ pedalboard_path \in BundlePaths
    /\ Commit(Run(H, [Frame0 EXCEPT !.k = "hmi_reset_current_pedalboard"],
                  UserCb("hmi_reset_current_pedalboard")))

\* the state after init_host; trace says whether the history is kept
InitHost(trace) ==
    /\ plugins = <<>>
    /\ connections = <<>>
    /\ mapper = MapperClear
    /\ addressings = InitAddressings
    /\ queue = <<>>
    /\ idle = TRUE
    /\ writesock = 1
    /\ readsock = 1
    /\ crashed = FALSE
    /\ bank_id = 0
    /\ pedalboard_path = ""
    /\ pedalboard_modified = FALSE
    /\ next_hmi_pedalboard = <<>>
    /\ hmi_initialized = TRUE
    /\ midiports = <<>>
    /\ current_tuner_port = 1
    /\ jack_midi = {}
    /\ saved_bundle = NoBundle
    /\ jack_tuner = 0
    /\ streams = [s \in 1..MaxStreams |->
                     IF s = 1 THEN [Stream0 EXCEPT !.state = "open"] ELSE Stream0]
    /\ rlive = {1}
    /\ hmiq = <<>>
    /\ engine = {}
    /\ sent = <<>>
    /\ msgs = <<>>
    /\ cbs = <<>>
    /\ delivered = <<>>
    /\ hmicalls = <<>>
    /\ lastreq = <<>>
    /\ reloaded = <<>>
    /\ txlog = <<>>
    /\ nsub = 0
    /\ nclose = 0
    /\ trace_on = trace

----------------------------------------------------------------------------
(* EngineLink under submissions, responses, closes and reconnects *)

InitLink == InitHost(TRUE)

NextLink ==
    \/ ApiReset
    \/ ApiConnect(SourcePorts, TargetPorts)
    \/ Respond
    \/ WriterClosed
    \/ ReaderClosed
    \/ WebsocketOpen
    \/ WriterConnected

SpecLink == InitLink /\ [][NextLink]_vars
\* the requests written to a stream that is not closed and are not answered
Awaiting ==
    UNION {{<<s, k>> : k \in 1..Len(streams[s].wire)} : s \in DOMAIN streams}

\* C3: the write channel is strictly serialized: requests are transmitted
\* in the order of their submission, at most one request awaits its
\* response at any time, and a response is handed to the callback of the
\* request it answers.
WriteChannelSerialized ==
    /\ \A i, j \in 1..Len(txlog) : i < j => txlog[i].id < txlog[j].id
    /\ Cardinality(Awaiting) <= 1
    /\ \A k \in 1..Len(delivered) : delivered[k].to = delivered[k].of

\* C6: no request queued or in flight when the write socket closed, and none
\* submitted while it was closed, is transmitted afterwards: a transmitted
\* request was submitted to an open socket, with no close in between.
QueueAbandonedOnClose ==
    \A k \in 1..Len(txlog) :
        txlog[k].subws # 0 /\ txlog[k].subcl = txlog[k].txcl
----------------------------------------------------------------------------
(* AddressingEngine under address, remove, load, reset and navigation *)

InitAddr == InitHost(FALSE)

NextAddr ==
    \/ ApiAddPlugin({"/graph/a"}, {"urn:amp"})
    \/ ApiAddress({"/graph/a"}, {"gain", ":bypass"}, {"/hmi/knob1", kNullAddressURI})
    \/ ApiRemovePlugin({"/graph/a"})
    \/ ApiReset
    \/ ApiLoad({"pb1"})
    \/ HmiAddressingNext({"/hmi/knob1"})
    \/ HmiAddressingPrev({"/hmi/knob1"})
    \/ Respond
    \/ HmiAck

SpecAddr == InitAddr /\ [][NextAddr]_vars
RECURSIVE Flatten(_)
\* the concatenation of a list of lists
Flatten(ss) == IF ss = <<>> THEN <<>> ELSE Head(ss) \o Flatten(Tail(ss))

\* how often a list holds x
Count(s, x) == Cardinality({k \in 1..Len(s) : s[k] = x})

\* the Addressing records held by the plugins, and those held by the rings
PluginSide ==
    Flatten([k \in 1..Len(IntSetToSeq(DOMAIN plugins)) |->
                plugins[IntSetToSeq(DOMAIN plugins)[k]].addressings])

RingSide ==
    Flatten([k \in 1..Len(SetToSeq(DOMAIN addressings)) |->
                addressings[SetToSeq(DOMAIN addressings)[k]].addrs])

\* C1: the multiset of Addressing records held in plugins[*].addressings
\* equals the multiset held in the rings: every plugin-side binding is in
\* exactly one ring exactly once, and every ring entry is a binding of an
\* existing plugin.
BindingsMatchRings ==
    /\ \A a \in Range(PluginSide) \cup Range(RingSide) :
          Count(PluginSide, a) = Count(RingSide, a)
    /\ \A i \in DOMAIN plugins :
          \A k \in 1..Len(plugins[i].addressings) :
              plugins[i].addressings[k].instance_id = i

\* C2: in every reachable state every non-empty ring has a cursor with
\* 0 <= idx < len(addrs).
CursorInRange ==
    \A u \in DOMAIN addressings :
        Len(addressings[u].addrs) > 0 =>
            /\ 0 <= addressings[u].idx
            /\ addressings[u].idx < Len(addressings[u].addrs)
----------------------------------------------------------------------------
(* HMI load requests arriving at any point of a load in progress *)

InitHmiLoad == InitHost(FALSE)

NextHmiLoad ==
    \/ HmiLoadBankPedalboard(0..2, 0..2)
    \/ Respond
    \/ HmiAck

SpecHmiLoad == InitHmiLoad /\ [][NextHmiLoad]_vars

\* whether a request names a pedalboard of a bank
ValidTarget(r) ==
    /\ r[1] \in 0..Len(banks)
    /\ r[2] \in 0..(Len(PedalboardsOf(r[1])) - 1)

\* the bundle a valid request names
TargetBundle(r) == PedalboardsOf(r[1])[r[2] + 1]

\* C4: a request arriving while a load is in progress replaces the stashed
\* target, and when no load is in progress any more the session is on the
\* most recent request (if it names a pedalboard), whatever the order in
\* which the engine and the HMI completed their callbacks.
LastRequestWins ==
    /\ next_hmi_pedalboard # <<>> =>
          next_hmi_pedalboard = <<lastreq[1], lastreq[2]>>
    /\ (next_hmi_pedalboard = <<>> /\ lastreq # <<>> /\ ValidTarget(lastreq)) =>
          /\ bank_id = lastreq[1]
          /\ pedalboard_path = TargetBundle(lastreq)

\* a request was stashed during the load of another pedalboard, and the
\* loads are over with the session on the stashed one
StashedRequestLoaded ==
    /\ next_hmi_pedalboard = <<>>
    /\ lastreq # <<>> /\ lastreq[3] = 1 /\ ValidTarget(lastreq)
    /\ Len(reloaded) = 2 /\ reloaded[1] # reloaded[2]
    /\ pedalboard_path = reloaded[2]
    /\ pedalboard_path = TargetBundle(lastreq)
----------------------------------------------------------------------------
(* Crash and replay of a session with plugins, values and connections *)

InitReplay == InitHost(FALSE)

NextReplay ==
    \/ ApiAddPlugin({"/graph/a"}, {"urn:amp"})
    \/ ApiBypass({"/graph/a"})
    \/ ApiConnect({<<"/graph", "capture_1">>}, {<<"/graph/a", "in">>})
    \/ EvOutputSet({0})
    \/ Respond
    \/ WriterClosed
    \/ WebsocketOpen
    \/ WriterConnected

SpecReplay == InitReplay /\ [][NextReplay]_vars

\* the requests a step submitted: those it wrote and those it left queued,
\* without the ones that were queued before
SubmittedNow ==
    LET all == [k \in 1..Len(sent') |-> sent'[k].req] \o queue'
    IN SubSeq(all, Len(queue) + 1, Len(all))

\* the commands that re-establish one plugin
PluginCommands(i, p) ==
    {[Req0 EXCEPT !.cmd = "add", !.uri = p.uri, !.iid = i]}
    \cup (IF p.bypassed
          THEN {[Req0 EXCEPT !.cmd = "bypass", !.iid = i, !.val = 1]} ELSE {})
    \cup (IF p.bypassCC # NoBypassCC
          THEN {[Req0 EXCEPT !.cmd = "midi_map", !.iid = i, !.sym = ":bypass",
                             !.cc = <<p.bypassCC[1], p.bypassCC[2], 0, 1>>]}
          ELSE {})
    \cup (IF p.preset # ""
          THEN {[Req0 EXCEPT !.cmd = "preset_load", !.iid = i, !.uri = p.preset]}
          ELSE {})
    \cup {[Req0 EXCEPT !.cmd = "param_set", !.iid = i, !.sym = s, !.val = p.ports[s]] :
             s \in DOMAIN p.ports}
    \cup {[Req0 EXCEPT !.cmd = "monitor_output", !.iid = i, !.sym = s] :
             s \in DOMAIN p.outputs}
    \cup {[Req0 EXCEPT !.cmd = "midi_map", !.iid = i, !.sym = s, !.cc = p.midiCCs[s]] :
             s \in {q \in DOMAIN p.midiCCs : p.midiCCs[q] # NoCC}}

\* C5: when the write socket reconnects after a crash the commands replayed
\* are exactly the adds, bypasses, midi_maps, preset_loads, one param_set
\* per stored port value and one monitor_output per monitored output of
\* every plugin, then one connect per edge, all adds before all connects.
ReplayIsExact ==
    [][(crashed /\ ~crashed') =>
          LET R == SubmittedNow
              other == SelectSeq(R, LAMBDA r : r.cmd # "connect")
              conn == SelectSeq(R, LAMBDA r : r.cmd = "connect")
              expected == UNION {PluginCommands(i, plugins[i]) : i \in DOMAIN plugins}
          IN /\ Range(other) = expected
             /\ Len(other) = Cardinality(expected)
             /\ Len(conn) = Len(connections)
             /\ \A k \in 1..Len(conn) :
                   /\ conn[k].a = _fix_host_connection_port(mapper, connections[k][1])
                   /\ conn[k].b = _fix_host_connection_port(mapper, connections[k][2])
             /\ \A j, k \in 1..Len(R) :
                   (R[j].cmd = "connect" /\ R[k].cmd = "add") => k < j]_vars
----------------------------------------------------------------------------
(* SessionGraph under add, remove, connect, disconnect and reset *)

InitGraph == InitHost(FALSE)

NextGraph ==
    \/ ApiAddPlugin({"/graph/a"}, {"urn:dly"})
    \/ ApiRemovePlugin({"/graph/a"})
    \/ ApiReset
    \/ ApiConnect({<<"/graph", "capture_1">>}, {<<"/graph/a", "in">>})
    \/ ApiDisconnect({<<"/graph", "capture_1">>}, {<<"/graph/a", "in">>})
    \/ Respond
    \/ HmiAck

SpecGraph == InitGraph /\ [][NextGraph]_vars

\* C7: in every reachable state every key of plugins is an id present in
\* the mapper, mapped to exactly one instance name, the plugin's 'instance'.
PluginsInMapper ==
    \A i \in DOMAIN plugins :
        /\ i \in DOMAIN mapper.id_map
        /\ mapper.id_map[i] = plugins[i].instance
        /\ plugins[i].instance \in DOMAIN mapper.instance_map
        /\ mapper.instance_map[plugins[i].instance] = i

\* whether a graph path names a hardware port or a port of a plugin of the
\* session
Resolves(port) ==
    \/ port[1] = "/graph" /\ port[2] \in HwPorts
    \/ \E i \in DOMAIN plugins : plugins[i].instance = port[1]

\* C8: in every reachable state both endpoints of every edge of connections
\* resolve to a port of a plugin currently in plugins or to a hardware port.
EdgesResolve ==
    \A k \in 1..Len(connections) :
        Resolves(connections[k][1]) /\ Resolves(connections[k][2])
----------------------------------------------------------------------------
(* The bypass state of a plugin with designated ports *)

InitBypass == InitHost(FALSE)

NextBypass ==
    \/ ApiAddPlugin({"/graph/a"}, {"urn:amp"})
    \/ ApiBypass({"/graph/a"})
    \/ HmiParameterSet({0}, {":bypass"})
    \/ EvParamSet({0}, {":bypass"})
    \/ EvMidiMapped({0}, {":bypass"}, {<<0, 1>>})
    \/ Respond

SpecBypass == InitBypass /\ [][NextBypass]_vars

\* C9: for every plugin with designated ports, in every reachable state
\* ports[enabled_symbol] = 1 - bypassed and ports[freewheel_symbol] = 0.
DesignationsTrackBypassed ==
    \A i \in DOMAIN plugins :
        /\ plugins[i].designations[1] # "" =>
              plugins[i].ports[plugins[i].designations[1]] =
                  (IF plugins[i].bypassed THEN 0 ELSE 1)
        /\ plugins[i].designations[2] # "" =>
              plugins[i].ports[plugins[i].designations[2]] = 0

\* C10: a step that submits bypass(i, b) for a plugin with an enabled
\* designation leaves ports[enabled_symbol] = 0 when b is true and 1 when b
\* is false, and submits 'bypass' followed by a param_set of the enabled
\* symbol with that value.
BypassWritesEnabled ==
    [][LET R == SubmittedNow
       IN (R # <<>> /\ R[1].cmd = "bypass" /\ R[1].cb = UserCb("bypass")
              /\ plugins'[R[1].iid].designations[1] # "") =>
             LET p == plugins'[R[1].iid]
                 value == IF R[1].val = 1 THEN 0 ELSE 1
             IN /\ p.bypassed = (R[1].val = 1)
                /\ p.ports[p.designations[1]] = value
                /\ Len(R) = 2
                /\ R[2].cmd = "param_set" /\ R[2].iid = R[1].iid
                /\ R[2].sym = p.designations[1] /\ R[2].val = value
                /\ R[2].cb = UserCb("bypass")]_vars

\* bypass(i, true) was called for a plugin with an enabled designation:
\* 'bypass' is written, the param_set of the enabled symbol is queued and
\* the stored value of the enabled port is 0
BypassedPluginDisabled ==
    /\ sent # <<>> /\ queue # <<>>
    /\ sent[1].req.cmd = "bypass" /\ sent[1].req.val = 1
    /\ sent[1].req.cb = UserCb("bypass")
    /\ Head(queue).cmd = "param_set" /\ Head(queue).sym = "en"
    /\ sent[1].req.iid \in DOMAIN plugins
    /\ plugins[sent[1].req.iid].bypassed
    /\ plugins[sent[1].req.iid].ports["en"] = 0

(***************************************************************************)
(* The modified flag.                                                      *)
(***************************************************************************)
InitModified == InitHost(FALSE)

NextModified ==
    \/ ApiLoad({"pb1"})
    \/ ApiSetPosition({"/graph/a"})
    \/ ApiParamSet({"/graph/a"}, {"gain", "en"})
    \/ ApiAddress({"/graph/a"}, {"gain"}, {"/hmi/footswitch1", kNullAddressURI})
    \/ Respond
    \/ HmiAck

SpecModified == InitModified /\ [][NextModified]_vars

\* What save_state_to_ttl and the addressings file keep of a session.
SavedOf(ps, cs) ==
    <<[i \in DOMAIN ps |->
          [instance |-> ps[i].instance, uri |-> ps[i].uri,
           bypassed |-> ps[i].bypassed, bypassCC |-> ps[i].bypassCC,
           addressings |-> ps[i].addressings, midiCCs |-> ps[i].midiCCs,
           ports |-> ps[i].ports, preset |-> ps[i].preset,
           x |-> ps[i].x, y |-> ps[i].y]],
      cs>>

\* The step ran load() to its end.
LoadedNow == msgs' # <<>> /\ msgs'[Len(msgs')].k = "loading_end"

\* C11: a step that changes the saved state of the session (a plugin's
\* ports, bypass, addressings, MIDI mappings, preset or position, or the
\* connections) leaves pedalboard_modified true, unless the step is a load;
\* and a step that ran load to its end leaves pedalboard_modified false.
ModifiedTracksMutations ==
    [][/\ (SavedOf(plugins', connections') # SavedOf(plugins, connections)
            /\ ~LoadedNow) => pedalboard_modified'
       /\ LoadedNow => ~pedalboard_modified']_vars

(***************************************************************************)
(* The messages that mirror the session to the editor.                     *)
(***************************************************************************)
InitMirror == InitHost(FALSE)

NextMirror ==
    \/ ApiAddPlugin({"/graph/a"}, {"urn:amp"})
    \/ ApiRemovePlugin({"/graph/a"})
    \/ ApiConnect({<<"/graph", "capture_1">>}, {<<"/graph/a", "in">>})
    \/ ApiDisconnect({<<"/graph", "capture_1">>}, {<<"/graph/a", "in">>})
    \/ HmiParameterSet({0}, {"gain"})
    \/ Respond
    \/ HmiAck

SpecMirror == InitMirror /\ [][NextMirror]_vars

MirrorKinds == {"add", "remove", "param_set", "connect", "disconnect", "preset"}

\* C12: a step that broadcasts a mirror message (add, remove, param_set,
\* connect, disconnect, preset) is a step that handed a response of the
\* engine to its callback, and every completion the step ran reported
\* success: nothing is mirrored for a command that is unanswered or failed.
MirrorsFollowAcks ==
    [][\A k \in 1..Len(msgs') :
          msgs'[k].k \in MirrorKinds =>
              /\ delivered' # <<>>
              /\ \A c \in 1..Len(cbs') : cbs'[c][2] # 0]_vars

(***************************************************************************)
(* Connections.                                                            *)
(***************************************************************************)
\* C13: connect is idempotent: in every reachable state, connect(src, dst)
\* for an edge that is already in connections writes and queues no engine
\* command, leaves connections as they are, raises nothing and calls the
\* callback once, with True.
ConnectIsIdempotent ==
    \A e \in Range(connections) :
        LET r == connect(H, e[1], e[2], UserCb("connect"))
        IN /\ r.sent = <<>>
           /\ r.queue = queue
           /\ r.streams = streams
           /\ r.connections = connections
           /\ r.cbs = <<<<"connect", 1>>>>
           /\ ~r.exc

\* connect was called for an edge that exists: its callback ran in a step
\* that delivered no response and wrote nothing.
ExistingEdgeConnected ==
    /\ connections # <<>>
    /\ cbs = <<<<"connect", 1>>>>
    /\ delivered = <<>>
    /\ sent = <<>>

\* C14: disconnect is best-effort: a step in which disconnect(src, dst)
\* completed (its callback ran) gave the callback True and leaves no edge
\* (src, dst) in connections, whatever the backend reported.
DisconnectDropsEdge ==
    [][(cbs' # <<>> /\ cbs'[1][1] = "disconnect") =>
          /\ cbs'[1][2] = 1
          /\ msgs' # <<>>
          /\ <<msgs'[1].pa, msgs'[1].pb>> \notin Range(connections')]_vars

(***************************************************************************)
(* Designated ports.                                                       *)
(***************************************************************************)
\* C15: param_set refuses the designated symbols: in every reachable state,
\* for every plugin and every symbol in its designations, param_set with any
\* value leaves the plugins (the stored port value with them) unchanged,
\* writes and queues no engine command and leaves pedalboard_modified as
\* it was.
ParamSetRefusesDesignated ==
    \A instance \in DOMAIN mapper.instance_map :
        LET iid == get_id_without_creating(mapper, instance)
        IN iid \in DOMAIN plugins =>
              \A sym \in Range(plugins[iid].designations) \ {""}, v \in Values :
                  LET r == param_set(H, <<instance, sym>>, v, UserCb("param_set"))
                  IN /\ r.plugins = plugins
                     /\ r.sent = <<>>
                     /\ r.queue = queue
                     /\ r.streams = streams
                     /\ r.pedalboard_modified = pedalboard_modified

\* A loaded session that is not modified and takes calls, with a plugin that
\* has an enabled port: the state in which a param_set on that port is
\* refused without a trace.
DesignatedPortUntouched ==
    /\ CanTake
    /\ ~pedalboard_modified
    /\ 0 \in DOMAIN plugins
    /\ plugins[0].designations[1] = "en"
    /\ plugins[0].ports["en"] = 0
    /\ cbs # <<>>

(***************************************************************************)
(* The ':presets' addressing of a plugin with many presets.                *)
(***************************************************************************)
InitPresets == InitHost(FALSE)

NextPresets ==
    \/ ApiAddPlugin({"/graph/a"}, {"urn:bank"})
    \/ ApiPresetLoad({"/graph/a"}, {PresetUri(2), PresetUri(51), PresetUri(52)})
    \/ ApiAddress({"/graph/a"}, {":presets"}, {"/hmi/knob1", kNullAddressURI})
    \/ HmiParameterSet({0}, {":presets"})
    \/ Respond
    \/ HmiAck

SpecPresets == InitPresets /\ [][NextPresets]_vars

\* C16: whenever a plugin has an active ':presets' addressing, its selected
\* preset is "" or an element of its mapPresets, also for a plugin with more
\* than kMaxAddressableScalepoints presets whose selected preset is beyond
\* the first 50.
SelectedPresetIsMapped ==
    \A i \in DOMAIN plugins :
        (\E k \in 1..Len(plugins[i].addressings) :
            plugins[i].addressings[k].port = ":presets")
        => \/ plugins[i].preset = ""
           \/ plugins[i].preset \in Range(plugins[i].mapPresets)

\* C17: in every reachable state the mapPresets of every plugin has at most
\* kMaxAddressableScalepoints entries.
MapPresetsBounded ==
    \A i \in DOMAIN plugins :
        Len(plugins[i].mapPresets) <= kMaxAddressableScalepoints

(***************************************************************************)
(* The instance-id mapper.                                                 *)
(***************************************************************************)
InitMapper == InitHost(FALSE)

NextMapper ==
    \/ ApiAddPlugin(Instances, {"urn:dly"})
    \/ ApiAddress(Instances, {"time"}, {kNullAddressURI})
    \/ ApiReset
    \/ Respond

SpecMapper == InitMapper /\ [][NextMapper]_vars

\* The two maps of m are inverse to each other, the ids handed out are
\* exactly 0 .. last_id - 1, and get_id answers the same id for a known name
\* and an unused id for a new one, which get_instance maps back.
MapperBijective(m) ==
    /\ DOMAIN m.id_map = 0..(m.last_id - 1)
    /\ \A s \in DOMAIN m.instance_map :
          /\ m.instance_map[s] \in DOMAIN m.id_map
          /\ get_instance(m, m.instance_map[s]) = s
    /\ \A i \in DOMAIN m.id_map :
          /\ m.id_map[i] \in DOMAIN m.instance_map
          /\ get_id_without_creating(m, m.id_map[i]) = i
    /\ \A s \in Instances :
          /\ s \notin DOMAIN m.instance_map => get_id(m, s) \notin DOMAIN m.id_map
          /\ get_id(get_id_mapper(m, s), s) = get_id(m, s)
          /\ get_instance(get_id_mapper(m, s), get_id(m, s)) = s

\* C18: between two clear() calls the mapper is a bijection: after every
\* step the maps are inverse to each other, and unless the step cleared the
\* mapper (both maps empty and last_id = 0 again) every name keeps its id,
\* every id keeps its name and last_id does not decrease; a step that ran
\* reset (it submitted 'remove -1') leaves the mapper cleared.
MapperIsBijection ==
    [][/\ MapperBijective(mapper')
       /\ (\E k \in 1..Len(SubmittedNow) :
              SubmittedNow[k].cmd = "remove" /\ SubmittedNow[k].iid = -1)
          => mapper' = MapperClear
       /\ \/ mapper' = MapperClear
          \/ /\ mapper'.last_id >= mapper.last_id
             /\ \A s \in DOMAIN mapper.instance_map :
                   /\ s \in DOMAIN mapper'.instance_map
                   /\ mapper'.instance_map[s] = mapper.instance_map[s]
             /\ \A i \in DOMAIN mapper.id_map :
                   /\ i \in DOMAIN mapper'.id_map
                   /\ mapper'.id_map[i] = mapper.id_map[i]]_vars

\* Two names were given the ids 0 and 1, in the order of their first
\* get_id, the second name first.
TwoInstancesMapped ==
    /\ mapper.last_id = 2
    /\ mapper.instance_map = ("/graph/b" :> 0) @@ ("/graph/a" :> 1)
    /\ mapper.id_map = (0 :> "/graph/b") @@ (1 :> "/graph/a")
    /\ DOMAIN plugins = {0, 1}

(***************************************************************************)
(* Walking an actuator's ring.                                             *)
(***************************************************************************)
RECURSIVE NextTimes(_, _, _)
\* _address_next applied k times to the ring of an actuator.
NextTimes(h, actuator_uri, k) ==
    IF k = 0 THEN h
    ELSE _address_next(NextTimes(h, actuator_uri, k - 1), actuator_uri,
                       UserCb("_address_next"))

\* C19: in every reachable state, for every actuator whose ring has n >= 1
\* bindings and a cursor in 0 .. n-1, _address_next applied n times raises
\* nothing, leaves the ring and its idx as they were, and its k-th
\* application sends to the HMI (control_add) the binding at position
\* (idx + k) mod n, the one the cursor then shows.
AddressNextCycles ==
    \A u \in MappedActuators \cap DOMAIN addressings :
        LET ring == addressings[u]
            n == Len(ring.addrs)
            r == NextTimes(H, u, n)
        IN (n >= 1 /\ ring.idx \in 0..(n - 1)) =>
              /\ ~r.exc
              /\ r.addressings[u] = ring
              /\ Len(r.hmicalls) = n
              /\ \A k \in 1..n :
                    LET shown == ring.addrs[((ring.idx + k) % n) + 1]
                    IN /\ r.hmicalls[k].call = "control_add"
                       /\ r.hmicalls[k].act = u
                       /\ r.hmicalls[k].iid = shown.instance_id
                       /\ r.hmicalls[k].sym = shown.port
                       /\ r.hmicalls[k].index = ((ring.idx + k) % n) + 1
                       /\ r.hmicalls[k].num = n

InitRing == InitHost(FALSE)

NextRing ==
    \/ ApiAddPlugin({"/graph/a"}, {"urn:amp"})
    \/ ApiAddress({"/graph/a"}, {"gain", ":bypass", ":presets"}, {"/hmi/knob1"})
    \/ ApiUnaddress({"/graph/a"}, {"gain", ":bypass", ":presets"})
    \/ HmiAddressingNext({"/hmi/knob1"})
    \/ Respond
    \/ HmiAck

SpecRing == InitRing /\ [][NextRing]_vars

\* C20: in every reachable state, for every ring of n >= 2 bindings with a
\* cursor in range: _unaddress of the binding at the cursor leaves the other
\* bindings in their order, and the _address_next that runs then puts the
\* cursor, in range, on the binding that followed the removed one,
\* the first one if the removed one was last. With [P1, P2, P3] and idx = 1:
\* removing P2 gives [P1, P3] and idx = 0, _address_next gives idx = 1 (P3)
\* and a second _address_next idx = 0 (P1).
CursorFollowsRemoval ==
    \A u \in MappedActuators \cap DOMAIN addressings :
        LET ring == addressings[u]
            n == Len(ring.addrs)
        IN (/\ n >= 2
            /\ ring.idx \in 0..(n - 1)
            /\ ring.addrs[ring.idx + 1].instance_id \in DOMAIN plugins
            /\ AddressingOf(plugins[ring.addrs[ring.idx + 1].instance_id],
                            ring.addrs[ring.idx + 1].port)
                   = <<ring.addrs[ring.idx + 1]>>) =>
           LET removed == ring.addrs[ring.idx + 1]
               iid == removed.instance_id
               h1 == [H EXCEPT
                        !.addressings = _unaddress_rings(@, plugins[iid], removed.port),
                        !.plugins[iid] = _unaddress_plugin(@, removed.port)]
               r1 == _address_next(h1, u, UserCb("_address_next"))
               r2 == _address_next(r1, u, UserCb("_address_next"))
               shown(r) == PyIndex(r.addressings[u].addrs, r.addressings[u].idx)
           IN /\ h1.addressings[u].addrs =
                    [k \in 1..(n - 1) |-> IF k <= ring.idx THEN ring.addrs[k]
                                          ELSE ring.addrs[k + 1]]
              /\ r1.addressings[u].addrs = h1.addressings[u].addrs
              /\ r1.addressings[u].idx \in 0..(n - 2)
              /\ shown(r1) = ring.addrs[((ring.idx + 1) % n) + 1]
              /\ (n = 3 /\ ring.idx = 1) =>
                    /\ h1.addressings[u].addrs = <<ring.addrs[1], ring.addrs[3]>>
                    /\ h1.addressings[u].idx = 0
                    /\ r1.addressings[u].idx = 1 /\ shown(r1) = ring.addrs[3]
                    /\ r2.addressings[u].idx = 0 /\ shown(r2) = ring.addrs[1]

\* address() removed a binding from the ring of /hmi/knob1 and, after the
\* HMI acknowledged the control_rm, _address_next ran: the ring has two
\* bindings left, the cursor is on the second and it was sent to the HMI.
NextAfterRemoval ==
    /\ Len(addressings["/hmi/knob1"].addrs) = 2
    /\ addressings["/hmi/knob1"].idx = 1
    /\ hmicalls # <<>>
    /\ hmicalls[1].call = "control_add"
    /\ hmicalls[1].index = 2
    /\ hmicalls[1].cb[1].k = "address.unaddressingStep2"

(***************************************************************************)
(* The life of one plugin bound to a footswitch.                           *)
(***************************************************************************)
InitLifecycle == InitHost(FALSE)

NextLifecycle ==
    \/ ApiAddPlugin({"/graph/a"}, {"urn:amp"})
    \/ ApiAddress({"/graph/a"}, {":bypass"}, {"/hmi/footswitch1"})
    \/ ApiRemovePlugin({"/graph/a"})
    \/ Respond
    \/ HmiAck

SpecLifecycle == InitLifecycle /\ [][NextLifecycle]_vars

\* C21: add_plugin, address of ':bypass' to /hmi/footswitch1 and
\* remove_plugin of one instance: no step sends a midi_map to the engine; a
\* step that sends the engine's 'remove' of the instance is the step in
\* which the HMI answered control_rm; and in the step in which remove_plugin
\* completes with success, plugins is empty and the ring of
\* /hmi/footswitch1 is empty.
RemoveAfterHmi ==
    [][LET R == SubmittedNow
       IN /\ \A k \in 1..Len(R) : R[k].cmd # "midi_map"
          /\ \A k \in 1..Len(R) :
                R[k].cmd = "remove" =>
                    /\ hmiq # <<>>
                    /\ Head(hmiq).call = "control_rm"
                    /\ Head(hmiq).iid = R[k].iid
                    /\ hmiq' = Tail(hmiq)
          /\ <<"remove_plugin", 1>> \in Range(cbs') =>
                /\ plugins' = <<>>
                /\ addressings'["/hmi/footswitch1"].addrs = <<>>]_vars

\* remove_plugin completed with success for a plugin whose ':bypass' had
\* been bound to /hmi/footswitch1: the HMI was told to show the binding and
\* to remove the instance's controls, and the engine answered the 'remove'.
BoundPluginRemoved ==
    /\ <<"remove_plugin", 1>> \in Range(cbs)
    /\ plugins = <<>>
    /\ addressings["/hmi/footswitch1"] # [idx |-> 0, addrs |-> <<>>]
    /\ addressings["/hmi/footswitch1"].addrs = <<>>

(***************************************************************************)
(* Loading a pedalboard whose MIDI device is not plugged in.               *)
(***************************************************************************)
InitMidi == InitHost(FALSE)

NextMidi ==
    \/ ApiLoad({"pb3"})
    \/ JackMidiPortAppeared
    \/ ApiReset
    \/ Respond

SpecMidi == InitMidi /\ [][NextMidi]_vars

\* The edge that pb3 saves from the MIDI input of its device to /graph/a.
SavedMidiEdge == << <<"/graph", "midi_capture_1">>, <<"/graph/a", "in">> >>

\* The same edge with the port JACK gives to that input now.
LiveMidiEdge == << <<"/graph", "midi_capture_2">>, <<"/graph/a", "in">> >>

PendingOf(mp) == UNION {Range(mp[k].conns) : k \in 1..Len(mp)}

\* C22: a step that loads pb3 to its end while JACK does not have the MIDI
\* input of its device leaves the edge from that input out of connections
\* and in the pending connections of the device; and a step in which that
\* input appears while the edge is pending and JACK makes the connection
\* moves the edge from the pending connections to connections and
\* broadcasts 'connect'.
PendingMidiEdgeKept ==
    [][/\ (LoadedNow /\ NewMidiIns(jack_midi, "Keystation") = {}) =>
             /\ SavedMidiEdge \notin Range(connections')
             /\ SavedMidiEdge \in PendingOf(midiports')
       /\ (/\ "midi_capture_2" \in jack_midi' \ jack_midi
           /\ SavedMidiEdge \in PendingOf(midiports)
           /\ Len(connections') > Len(connections)) =>
             /\ LiveMidiEdge \in Range(connections')
             /\ PendingOf(midiports') = {}
             /\ \E k \in 1..Len(msgs') :
                   /\ msgs'[k].k = "connect"
                   /\ <<msgs'[k].pa, msgs'[k].pb>> = LiveMidiEdge]_vars

----------------------------------------------------------------------------
(* Learning a MIDI controller for a port *)

LearnRanges == {<<0, 1>>, <<-12, 12>>}

InitLearn == InitHost(FALSE)

NextLearn ==
    \/ ApiAddPlugin({"/graph/a"}, {"urn:amp"})
    \/ ApiAddress({"/graph/a"}, {"gain"}, {"/hmi/knob1"})
    \/ ApiMidiLearn({"/graph/a"}, {"gain", ":bypass"}, LearnRanges)
    \/ EvMidiMapped({0}, {"gain", ":bypass"}, LearnRanges)
    \/ Respond
    \/ HmiAck

SpecLearn == InitLearn /\ [][NextLearn]_vars

\* the MIDI mappings of every plugin
MidiMapsOf(ps) ==
    [iid \in DOMAIN ps |-> [midiCCs |-> ps[iid].midiCCs, bypassCC |-> ps[iid].bypassCC]]

\* the requests a call has submitted when it returns the host r
SubmittedBy(r) == [k \in 1..Len(r.sent) |-> r.sent[k].req] \o r.queue

\* C23: address() with the MIDI-learn actuator sends "midi_learn <iid> <port>
\* <min> <max>" and leaves every MIDI mapping as it was (also when the port
\* was bound to an actuator before and the command is sent after the HMI
\* has acknowledged the removal); the event "midi_mapped <iid> <port> <ch>
\* <ctrl> <value> <min> <max>" stores (ch, ctrl, min, max) in midiCCs[port]
\* and value in ports[port], and for ":bypass" stores (ch, ctrl) in bypassCC
\* and bool(value) in bypassed.
MidiLearnThenMapped ==
    [][/\ \A k \in 1..Len(SubmittedNow) :
             SubmittedNow[k].cmd = "midi_learn" => MidiMapsOf(plugins') = MidiMapsOf(plugins)
       /\ \A port \in {"gain", ":bypass"}, rng \in LearnRanges :
             (/\ 0 \in DOMAIN plugins
              /\ knows_instance(mapper, "/graph/a")
              /\ AddressingOf(plugins[0], port) = <<>>
              /\ CanTake)
             => LET r == Run(H, [Frame0 EXCEPT !.k = "address", !.inst = "/graph/a",
                                               !.sym = port, !.act = kMidiLearnURI,
                                               !.label = "L", !.n1 = rng[1],
                                               !.n2 = rng[2], !.steps = 1],
                             UserCb("address"))
                    R == SubmittedBy(r)
                IN /\ Len(R) = Len(queue) + 1
                   /\ R[Len(R)].cmd = "midi_learn"
                   /\ R[Len(R)].iid = 0
                   /\ R[Len(R)].sym = port
                   /\ R[Len(R)].cc = rng
                   /\ MidiMapsOf(r.plugins) = MidiMapsOf(plugins)
       /\ \A v \in Values, rng \in LearnRanges :
             (0 \in DOMAIN plugins /\ knows_id(mapper, 0))
             => LET g == event_midi_mapped(H, 0, "gain", 1, 27, v, rng[1], rng[2])
                    b == event_midi_mapped(H, 0, ":bypass", 1, 27, v, rng[1], rng[2])
                IN /\ g.plugins[0].midiCCs["gain"] = <<1, 27, rng[1], rng[2]>>
                   /\ g.plugins[0].ports["gain"] = v
                   /\ b.plugins[0].bypassCC = <<1, 27>>
                   /\ b.plugins[0].bypassed = (v # 0)]_vars

\* the engine has mapped a controller to the gain with the range -12..12
GainLearned ==
    /\ 0 \in DOMAIN plugins
    /\ plugins[0].midiCCs["gain"] = <<0, 7, -12, 12>>
    /\ plugins[0].ports["gain"] = 0
    /\ \E k \in 1..Len(msgs) : msgs[k].k = "midi_map"

----------------------------------------------------------------------------
(* Saving a pedalboard and loading it again *)

SaveRanges == {<<0, 1>>, <<-1, 1>>}

InitSave == InitHost(FALSE)

\* the session is built, saved once, reset and loaded from the saved bundle
Building == saved_bundle = NoBundle

NextSave ==
    \/ Building /\ ApiAddPlugin({"/graph/a"}, {"urn:amp"})
    \/ Building /\ ApiParamSet({"/graph/a"}, {"gain"})
    \/ Building /\ ApiBypass({"/graph/a"})
    \/ Building /\ ApiConnect({<<"/graph", "capture_1">>}, {<<"/graph/a", "in">>})
    \/ Building /\ ApiAddress({"/graph/a"}, {"gain"}, {"/hmi/knob1"})
    \/ Building /\ EvMidiMapped({0}, {"gain"}, SaveRanges)
    \/ Building /\ queue = <<>> /\ hmiq = <<>> /\ ApiSave
    \/ pedalboard_path = "saved" /\ ApiReset
    \/ plugins = <<>> /\ saved_bundle # NoBundle /\ ApiLoad({"saved"})
    \/ Respond
    \/ HmiAck

SpecSave == InitSave /\ [][NextSave]_vars

\* what a pedalboard is made of: the plugins by instance name, the
\* connections, the MIDI mappings and the bindings of every actuator
PedalboardOf(h) ==
    [plugins |-> {[instance |-> h.plugins[i].instance, uri |-> h.plugins[i].uri,
                   bypassed |-> h.plugins[i].bypassed, ports |-> h.plugins[i].ports,
                   preset |-> h.plugins[i].preset] : i \in DOMAIN h.plugins},
     connections |-> Range(h.connections),
     midi_maps |-> {[instance |-> h.plugins[i].instance,
                     midiCCs |-> h.plugins[i].midiCCs,
                     bypassCC |-> h.plugins[i].bypassCC] : i \in DOMAIN h.plugins},
     addressings |-> {<<a.actuator_uri, Range(a.addrs)>> : a \in Range(get_addressings(h))}]

\* the session after save(title), reset and load of the bundle saved
SavedAndLoaded(h) == load(reset(save(h, "T", TRUE), <<>>), "saved", FALSE)

\* C24: in every state with nothing in flight, saving the session, resetting
\* it and loading the saved bundle gives the same plugins (uri, bypassed,
\* port values, preset), connections, MIDI mappings and bindings of every
\* actuator as before.
SaveLoadRoundTrip ==
    (queue = <<>> /\ hmiq = <<>> /\ ~get_addressings_raises(H))
        => PedalboardOf(SavedAndLoaded(H)) = PedalboardOf(H)

----------------------------------------------------------------------------
(* Loading a pedalboard that names an actuator the hardware does not have *)

InitMissing == InitHost(FALSE)

NextMissing ==
    \/ ApiLoad({"pb4", "pb1"})
    \/ ApiReset
    \/ Respond
    \/ HmiAck

SpecMissing == InitMissing /\ [][NextMissing]_vars

\* the bindings the plugins of ps hold, as <<instance, port, actuator>>
BindingsOf(ps) ==
    UNION {{<<ps[i].instance, a.port, a.actuator_uri>> : a \in Range(ps[i].addressings)}
              : i \in DOMAIN ps}

\* the bindings the rings hold, as <<instance id, port, actuator>>
RingBindings(as) ==
    UNION {{<<a.instance_id, a.port, u>> : a \in Range(as[u].addrs)} : u \in DOMAIN as}

\* C25: a load of "pb4", whose addressings name /hmi/knob5 (which the
\* hardware does not have) before /hmi/knob1, leaves no binding to
\* /hmi/knob5 in a plugin's addressings or in a ring, and the binding of
\* ":bypass" of /graph/b to /hmi/knob1 is loaded.
MissingActuatorSkipped ==
    [][(LoadedNow /\ pedalboard_path' = "pb4" /\ hmi_initialized)
          => /\ \A b \in BindingsOf(plugins') : b[3] \in HwActuators
             /\ \A b \in RingBindings(addressings') : b[3] \in HwActuators
             /\ <<"/graph/b", ":bypass", "/hmi/knob1">> \in BindingsOf(plugins')
             /\ \E b \in RingBindings(addressings') :
                   b[2] = ":bypass" /\ b[3] = "/hmi/knob1"]_vars

----------------------------------------------------------------------------
(* Calls that name an instance the mapper does not know *)

InitUnknown == InitHost(FALSE)

NextUnknown ==
    \/ ApiAddPlugin({"/graph/a"}, {"urn:amp"})
    \/ ApiRemovePlugin(Instances)
    \/ ApiBypass(Instances)
    \/ ApiParamSet(Instances, {"gain"})
    \/ ApiPresetLoad(Instances, {"pA"})
    \/ Respond
    \/ HmiAck

SpecUnknown == InitUnknown /\ [][NextUnknown]_vars

\* what the four mutating calls give for an instance, each with its callback
MutatingCalls(instance) ==
    {<<"remove_plugin", Run(H, [Frame0 EXCEPT !.k = "remove_plugin", !.inst = instance],
                            UserCb("remove_plugin"))>>,
     <<"bypass", bypass(H, instance, TRUE, UserCb("bypass"))>>,
     <<"param_set", param_set(H, <<instance, "gain">>, 1, UserCb("param_set"))>>,
     <<"preset_load", preset_load(H, instance, "pA", UserCb("preset_load"))>>}

\* a call left the session as it was and queued nothing
NothingDone(r) ==
    /\ r.plugins = plugins
    /\ r.connections = connections
    /\ r.addressings = addressings
    /\ r.mapper = mapper
    /\ r.pedalboard_modified = pedalboard_modified
    /\ r.queue = queue
    /\ r.sent = <<>>
    /\ r.hmiq = hmiq

\* C26: remove_plugin, bypass, param_set and preset_load called with an
\* instance name the mapper does not know change nothing, queue no engine
\* command, and call their callback with failure.
UnknownInstanceFails ==
    \A instance \in Instances :
        ~knows_instance(mapper, instance) =>
            \A c \in MutatingCalls(instance) :
                /\ NothingDone(c[2])
                /\ c[2].cbs = << <<c[1], 0>> >>

----------------------------------------------------------------------------
(* Replies of the engine that are not responses *)

InitProtocol == InitHost(FALSE)

NextProtocol ==
    \/ ApiAddPlugin({"/graph/a"}, {"urn:amp"})
    \/ ApiBypass({"/graph/a"})
    \/ ApiParamSet({"/graph/a"}, {"gain"})
    \/ ApiConnect({<<"/graph", "capture_1">>}, {<<"/graph/a", "in">>})
    \/ Respond
    \/ RespondGarbled

SpecProtocol == InitProtocol /\ [][NextProtocol]_vars

\* the session state: port values, bypassed flags, connections and rings
SessionOf(h) ==
    [ports |-> [i \in DOMAIN h.plugins |-> h.plugins[i].ports],
     bypassed |-> [i \in DOMAIN h.plugins |-> h.plugins[i].bypassed],
     connections |-> h.connections,
     rings |-> h.addressings]

\* the host at the start of the step that follows the call that returned r
AfterCall(r) ==
    [r EXCEPT !.sent = <<>>, !.msgs = <<>>, !.cbs = <<>>, !.delivered = <<>>,
              !.hmicalls = <<>>, !.exc = FALSE]

\* the host after the engine's garbled reply to the request the call that
\* returned r has written
GarbledReplyTo(r) == check_response(AfterCall(r), r.writesock, Null)

\* C27: when nothing is in flight and the engine's reply to a param_set or
\* a bypass does not start with "resp", the callback receives null and the
\* port values, bypassed flags, connections and rings are what they were
\* before the operation was requested.
ProtocolErrorKeepsState ==
    (/\ 0 \in DOMAIN plugins /\ knows_instance(mapper, "/graph/a")
     /\ queue = <<>> /\ idle /\ writesock # 0
     /\ streams[writesock].state = "open" /\ streams[writesock].rd = NoReq)
    => /\ \A v \in Values :
             LET r == GarbledReplyTo(param_set(H, <<"/graph/a", "gain">>, v,
                                               UserCb("param_set")))
             IN /\ r.cbs = << <<"param_set", Null>> >>
                /\ SessionOf(r) = SessionOf(H)
       /\ \A b \in BOOLEAN :
             LET r == GarbledReplyTo(bypass(H, "/graph/a", b, UserCb("bypass")))
             IN /\ r.cbs = << <<"bypass", Null>> >>
                /\ SessionOf(r) = SessionOf(H)

----------------------------------------------------------------------------
(* The HMI picks a preset by its index *)

PresetIndices == {-1, 0, 1, 2, 3}

InitIndex == InitHost(FALSE)

NextIndex ==
    \/ ApiAddPlugin({"/graph/a"}, {"urn:amp"})
    \/ ApiAddress({"/graph/a"}, {":presets"}, {"/hmi/knob1"})
    \/ HmiPresetSet({0}, PresetIndices)
    \/ Respond
    \/ HmiAck

SpecIndex == InitIndex /\ [][NextIndex]_vars

\* C28: the HMI's control_set of ":presets" with an index below 0 or at or
\* above len(mapPresets) calls the callback with False, sends and queues no
\* engine command, and leaves the plugins (preset, ports, mapPresets), the
\* rings and the modified flag as they were.
PresetIndexOutOfRange ==
    \A iid \in DOMAIN plugins :
        knows_id(mapper, iid) =>
            \A v \in PresetIndices :
                (v < 0 \/ v >= Len(plugins[iid].mapPresets)) =>
                    LET r == hmi_parameter_set(H, iid, ":presets", v,
                                               UserCb("hmi_parameter_set"))
                    IN /\ r.cbs = << <<"hmi_parameter_set", 0>> >>
                       /\ r.sent = <<>>
                       /\ r.queue = queue
                       /\ r.hmiq = hmiq
                       /\ r.plugins = plugins
                       /\ r.addressings = addressings
                       /\ r.pedalboard_modified = pedalboard_modified
                       /\ ~r.exc

\* the HMI's index was refused while the plugin had presets mapped
IndexRefused ==
    /\ cbs = << <<"hmi_parameter_set", 0>> >>
    /\ sent = <<>>
    /\ delivered = <<>>
    /\ 0 \in DOMAIN plugins
    /\ Len(plugins[0].mapPresets) = 2

----------------------------------------------------------------------------
(* The HMI lists the pedalboards of a bank *)

MaxPedalboards == 52

TitleLens == {1, 12, 31, 40}

InitList == InitHost(FALSE)

NextList ==
    \/ HmiListBankPedalboards({-1, 0, 1, 2}, 0..MaxPedalboards, TitleLens)

SpecList == InitList /\ [][NextList]_vars

\* C29: the reply to the HMI's "pedalboards" command lists at most 50 items.
ListsAtMostFifty ==
    \A k \in 1..Len(cbs) :
        cbs[k][1] = "hmi_list_bank_pedalboards" => Len(cbs[k][2].data) <= 50

----------------------------------------------------------------------------
(* The capture port of the tuner *)

TunerInputs == {-1, 0, 1, 2, 3}

InitTuner == InitHost(FALSE)

NextTuner ==
    \/ HmiTunerInput(TunerInputs)
    \/ ApiAddPlugin({"/graph/a"}, {"urn:amp"})
    \/ ApiParamSet({"/graph/a"}, {"gain"})
    \/ Respond

SpecTuner == InitTuner /\ [][NextTuner]_vars

\* C30: hmi_tuner_input takes the ports 1 and 2 only: a call that is refused
\* (callback False) changes neither JACK's connection nor current_tuner_port,
\* a call that is accepted (callback True) has set one of the ports 1 and 2,
\* and current_tuner_port is 1 or 2 throughout.
TunerPortInRange ==
    [][/\ current_tuner_port' \in {1, 2}
       /\ <<"hmi_tuner_input", 0>> \in Range(cbs') =>
             /\ current_tuner_port' = current_tuner_port
             /\ jack_tuner' = jack_tuner
       /\ <<"hmi_tuner_input", 1>> \in Range(cbs') =>
             /\ current_tuner_port' \in {1, 2}
             /\ jack_tuner' = current_tuner_port']_vars

----------------------------------------------------------------------------
(* Binding a port that is bound already *)

InitRebind == InitHost(FALSE)

NextRebind ==
    \/ ApiAddPlugin({"/graph/a"}, {"urn:amp"})
    \/ ApiAddress({"/graph/a"}, {"gain", ":bypass"}, {"/hmi/knob1", "/hmi/footswitch1"})
    \/ Respond
    \/ HmiAck

SpecRebind == InitRebind /\ [][NextRebind]_vars

RECURSIVE Settle(_)
\* the host after the HMI has acknowledged every call that is pending, one
\* after the other; cbs and hmicalls collect what the acknowledgements ran
Settle(r) ==
    IF r.hmiq = <<>> \/ r.exc THEN r
    ELSE Settle(Call([r EXCEPT !.hmiq = Tail(@)], Head(r.hmiq).cb, 1))

\* the last control_add among the HMI calls cs, <<>> when there is none
LastControlAdd(cs) ==
    LET adds == SelectSeq(cs, LAMBDA c : c.call = "control_add")
    IN IF adds = <<>> THEN <<>> ELSE <<adds[Len(adds)]>>

\* C31: when address() of a port of /graph/a to a real actuator has run to
\* its callback, the cursor of the actuator's ring is on the binding of that
\* port and the last control_add the HMI received is for it, whatever the
\* port was bound to before and whatever else the ring holds.
AddressShowsNewBinding ==
    (hmiq = <<>> /\ 0 \in DOMAIN plugins /\ knows_instance(mapper, "/graph/a"))
    => \A port \in {"gain", ":bypass"}, uri \in HwActuators :
          LET r == Settle(Run(H, [Frame0 EXCEPT !.k = "address", !.inst = "/graph/a",
                                                !.sym = port, !.act = uri,
                                                !.label = "L", !.n1 = 0, !.n2 = 1,
                                                !.steps = 1],
                              UserCb("address")))
              ring == r.addressings[uri]
              add == LastControlAdd(r.hmicalls)
          IN <<"address", 1>> \in Range(r.cbs) =>
                /\ PyIndexable(ring.addrs, ring.idx)
                /\ ring.idx >= 0
                /\ PyIndex(ring.addrs, ring.idx).port = port
                /\ PyIndex(ring.addrs, ring.idx).instance_id = 0
                /\ add # <<>>
                /\ add[1].sym = port /\ add[1].act = uri /\ add[1].iid = 0

----------------------------------------------------------------------------
(* Removing a plugin whose ports are bound *)

InitCascade == InitHost(FALSE)

NextCascade ==
    \/ ApiAddPlugin({"/graph/a"}, {"urn:amp"})
    \/ ApiAddress({"/graph/a"}, {"gain", ":bypass"}, HwActuators)
    \/ ApiRemovePlugin({"/graph/a"})
    \/ ApiLoad({"pb1"})
    \/ Respond
    \/ HmiAck

SpecCascade == InitCascade /\ [][NextCascade]_vars

RECURSIVE Acks(_, _)
\* the host after the HMI has acknowledged the first n of its pending calls
Acks(r, n) ==
    IF n = 0 \/ r.hmiq = <<>> \/ r.exc THEN r
    ELSE Acks(Call([r EXCEPT !.hmiq = Tail(@)], Head(r.hmiq).cb, 1), n - 1)

\* the HMI calls of r that _address_next makes for the actuator uri
NextCalls(r, uri) ==
    SelectSeq(r.hmicalls, LAMBDA c : c.call \in {"control_add", "control_clean"}
                                     /\ c.act = uri)

RemoveSubmitted(r, iid) ==
    \E k \in 1..Len(SubmittedBy(r)) :
        SubmittedBy(r)[k].cmd = "remove" /\ SubmittedBy(r)[k].iid = iid

HeldBy(h, iid, uri) ==
    \E k \in 1..Len(h.plugins[iid].addressings) :
        h.plugins[iid].addressings[k].actuator_uri = uri

Removal(instance) ==
    Run(H, [Frame0 EXCEPT !.k = "remove_plugin", !.inst = instance],
        UserCb("remove_plugin"))

\* C32: after remove_plugin no ring holds a binding of the plugin; whenever
\* the engine's remove has been submitted, each actuator that held one of
\* the plugin's bindings has had exactly one _address_next and the others
\* none; and the remove is submitted once the HMI has acknowledged all calls.
RemovalCascade ==
    (hmiq = <<>> /\ queue = <<>>)
    => \A instance \in Instances :
          (knows_instance(mapper, instance)
           /\ get_id_without_creating(mapper, instance) \in DOMAIN plugins)
          => LET iid == get_id_without_creating(mapper, instance)
             IN /\ \A uri \in HwActuators :
                      \A k \in 1..Len(Removal(instance).addressings[uri].addrs) :
                          Removal(instance).addressings[uri].addrs[k].instance_id # iid
                /\ \A n \in 0..3 :
                      RemoveSubmitted(Acks(Removal(instance), n), iid)
                      => \A uri \in HwActuators :
                            Len(NextCalls(Acks(Removal(instance), n), uri))
                               = IF HeldBy(H, iid, uri) THEN 1 ELSE 0
                /\ RemoveSubmitted(Acks(Removal(instance), 3), iid)

----------------------------------------------------------------------------
(* The two engine requests of preset_load *)

InitPresetLoad == InitHost(FALSE)

NextPresetLoad ==
    \/ ApiAddPlugin({"/graph/a"}, {"urn:amp"})
    \/ ApiAddress({"/graph/a"}, {":presets", "gain"}, {"/hmi/knob1"})
    \/ ApiPresetLoad({"/graph/a"}, {"pA", "pB"})
    \/ Respond
    \/ HmiAck

SpecPresetLoad == InitPresetLoad /\ [][NextPresetLoad]_vars

\* the engine's answer resp to the request r has on the wire
Reply(r, resp) == check_response(AfterCall(r), r.writesock, resp)

Cmds(r) == [k \in 1..Len(SubmittedBy(r)) |-> SubmittedBy(r)[k].cmd]

PresetOf(h) == [preset |-> h.plugins[0].preset, ports |-> h.plugins[0].ports]

Loading(uri) == preset_load(H, "/graph/a", uri, UserCb("preset_load"))

LoadRefused(uri) == Reply(Loading(uri), 0)

Showing(uri) == Reply(Loading(uri), 1)

ShowRefused(uri) == Reply(Showing(uri), 0)

Shown(uri, state) == Settle(Reply(Showing(uri), state))

PushesPresets(r) ==
    \E k \in 1..Len(r.hmicalls) :
        r.hmicalls[k].call = "control_add" /\ r.hmicalls[k].sym = ":presets"

PresetLoadReady ==
    /\ 0 \in DOMAIN plugins /\ knows_instance(mapper, "/graph/a")
    /\ queue = <<>> /\ idle /\ hmiq = <<>> /\ writesock # 0
    /\ streams[writesock].state = "open" /\ streams[writesock].rd = NoReq

\* C33: preset_load submits 'preset_load' alone; a failure answer calls the
\* callback with False and leaves preset and ports; a success answer submits
\* 'preset_show' and still leaves them; an empty state calls the callback
\* with False and leaves them; a state sets the preset and updates the
\* ports, the callback gets True once, and the reload of the actuators sends
\* no control_add for a ':presets' binding.
PresetLoadInOrder ==
    PresetLoadReady
    => \A uri \in {"pA", "pB"} :
          /\ Cmds(Loading(uri)) = <<"preset_load">>
          /\ PresetOf(Loading(uri)) = PresetOf(H)
          /\ Loading(uri).cbs = <<>>
          /\ Cmds(LoadRefused(uri)) = <<>>
          /\ PresetOf(LoadRefused(uri)) = PresetOf(H)
          /\ LoadRefused(uri).cbs = << <<"preset_load", 0>> >>
          /\ Cmds(Showing(uri)) = <<"preset_show">>
          /\ PresetOf(Showing(uri)) = PresetOf(H)
          /\ Showing(uri).cbs = <<>>
          /\ Cmds(ShowRefused(uri)) = <<>>
          /\ PresetOf(ShowRefused(uri)) = PresetOf(H)
          /\ ShowRefused(uri).cbs = << <<"preset_load", 0>> >>
          /\ \A state \in {1, 2} :
                /\ PresetOf(Shown(uri, state)) =
                      [preset |-> uri, ports |-> PresetPorts(plugins[0].ports, state)]
                /\ Shown(uri, state).cbs = << <<"preset_load", 1>> >>
                /\ ~PushesPresets(Shown(uri, state))

\* the knob shows the ':presets' binding and also holds the gain binding
\* when the preset is loaded
PresetsShownWhileLoading ==
    /\ PresetLoadReady
    /\ Len(addressings["/hmi/knob1"].addrs) = 2
    /\ addressings["/hmi/knob1"].idx \in {0, 1}
    /\ PyIndex(addressings["/hmi/knob1"].addrs, addressings["/hmi/knob1"].idx).port = ":presets"
    /\ plugins[0].preset = "pA"
    /\ Shown("pB", 1).plugins[0].preset = "pB"
    /\ Shown("pB", 1).cbs = << <<"preset_load", 1>> >>

----------------------------------------------------------------------------
(* address with one of the special URIs *)

InitSpecial == InitHost(FALSE)

SpecialURIs == {kNullAddressURI, kMidiLearnURI, kMidiUnmapURI}

NextSpecial ==
    \/ ApiAddPlugin({"/graph/a"}, {"urn:amp"})
    \/ ApiAddress({"/graph/a"}, {"gain", ":bypass"}, {"/hmi/knob1", "/hmi/footswitch1"} \cup SpecialURIs)
    \/ ApiLoad({"pb1"})
    \/ Respond
    \/ HmiAck

SpecSpecial == InitSpecial /\ [][NextSpecial]_vars

Unbinding(port, uri) ==
    Settle(Run(H, [Frame0 EXCEPT !.k = "address", !.inst = "/graph/a", !.sym = port,
                                 !.act = uri, !.label = "L", !.n1 = 0, !.n2 = 1,
                                 !.steps = 1],
               UserCb("address")))

\* the bindings of a ring other than those of the port of plugin iid
Without(addrs, iid, port) ==
    SelectSeq(addrs, LAMBDA a : ~(a.instance_id = iid /\ a.port = port))

\* the actuator the plugin's record binds the port to, "" when none
BoundTo(h, iid, port) ==
    IF AddressingOf(h.plugins[iid], port) = <<>> THEN ""
    ELSE AddressingOf(h.plugins[iid], port)[1].actuator_uri

\* C34: address() of a port of /graph/a with 'null', '/midi-learn' or
\* '/midi-unmap' leaves every ring as it was but for the bindings of that
\* port, which are gone from the rings and from the plugin; the actuator
\* the port was bound to has had one _address_next and no other actuator
\* any, the cursors of the other rings are unchanged; with 'null' no engine
\* command is submitted and the callback gets True.
SpecialAddressUnbinds ==
    PresetLoadReady
    => \A port \in {"gain", ":bypass"}, uri \in SpecialURIs :
          /\ \A u \in HwActuators :
                /\ Unbinding(port, uri).addressings[u].addrs
                      = Without(addressings[u].addrs, 0, port)
                /\ Len(NextCalls(Unbinding(port, uri), u))
                      = IF u = BoundTo(H, 0, port) THEN 1 ELSE 0
                /\ u # BoundTo(H, 0, port)
                      => Unbinding(port, uri).addressings[u].idx = addressings[u].idx
          /\ AddressingOf(Unbinding(port, uri).plugins[0], port) = <<>>
          /\ uri = kNullAddressURI
                => /\ Cmds(Unbinding(port, uri)) = <<>>
                   /\ Unbinding(port, uri).cbs = << <<"address", 1>> >>

----------------------------------------------------------------------------
(* A MIDI port goes away and comes back *)

InitUnplug == InitHost(FALSE)

NextUnplug ==
    \/ ApiLoad({"pb3"})
    \/ JackMidiPortAppeared
    \/ JackMidiPortDeleted
    \/ ApiReset
    \/ Respond

SpecUnplug == InitUnplug /\ [][NextUnplug]_vars

Unplugged(name) == midi_port_deleted([H EXCEPT !.jack_midi = @ \ {name}], name)

Replugged(name) ==
    midi_port_appeared([AfterCall(Unplugged(name)) EXCEPT !.jack_midi = @ \cup {name}],
                       name, JackIsOutput(name), TRUE)

EdgesOfPort(cs, name) ==
    {k \in 1..Len(cs) : <<"/graph", name>> \in {cs[k][1], cs[k][2]}}

\* the pending connections of the records whose stored symbol has the name
PendingFor(mp, name) ==
    UNION {Range(mp[k].conns) : k \in {j \in 1..Len(mp) : name \in {mp[j].ins, mp[j].outs}}}

\* C35: after midi_port_deleted(name) for a port JACK has, no edge of
\* connections touches the port, every edge that went away is pending in a
\* midiports record whose symbol has the name, and midi_port_appeared for
\* the name brings every edge of connections back, adding none but edges
\* that were pending before.
UnplugKeepsEdges ==
    \A name \in jack_midi :
        /\ EdgesOfPort(Unplugged(name).connections, name) = {}
        /\ \A k \in EdgesOfPort(connections, name) :
              connections[k] \in PendingFor(Unplugged(name).midiports, name)
        /\ Range(connections) \subseteq Range(Replugged(name).connections)
        /\ Range(Replugged(name).connections) \ Range(connections)
              \subseteq PendingOf(midiports)

----------------------------------------------------------------------------
(* The read loop *)

InitReader == InitHost(FALSE)

NextReader ==
    \/ ApiAddPlugin({"/graph/a"}, {"urn:amp"})
    \/ ApiRemovePlugin({"/graph/a"})
    \/ EvParamSet({0}, {"gain"})
    \/ EvOutputSet({0})
    \/ EvMidiMapped({0}, {"gain"}, {<<0, 1>>})
    \/ EvMidiProgram({0, 2})
    \/ EvDataFinish
    \/ EvUnrecognized
    \/ Respond
    \/ HmiAck

SpecReader == InitReader /\ [][NextReader]_vars

\* the read stream s is armed again after check_message ended in state r
Rearmed(r, s) == s \in reader_after_callback(r, s).rlive

\* no request is queued or awaits its answer
Settled ==
    /\ queue = <<>> /\ writesock # 0
    /\ streams[writesock].state = "open" /\ streams[writesock].rd = NoReq

\* C36: whatever event arrives on an armed read stream, for an instance id
\* the mapper has handed out and with no request outstanding (the plugin of
\* the id is there or has been removed), the stream is armed again
\* afterwards; an unrecognised command leaves the state as it is.
ReadLoopRearmed ==
    \A s \in rlive :
        /\ \A iid \in {i \in {0, 1} : knows_id(mapper, i) /\ Settled}, v \in Values :
              /\ Rearmed(event_param_set(H, iid, "gain", v), s)
              /\ Rearmed(event_output_set(H, iid, "out", v), s)
              /\ Rearmed(event_midi_mapped(H, iid, "gain", 0, 7, v, 0, 1), s)
        /\ \A program \in {0, 2} : Rearmed(event_midi_program(H, program), s)
        /\ Rearmed(event_data_finish(H), s)
        /\ Rearmed(event_unrecognized(H), s)
        /\ reader_after_callback(event_unrecognized(H), s) = H

----------------------------------------------------------------------------
(* Completion callbacks of the mutating API *)

InitOnce == InitHost(FALSE)

NextOnce ==
    \/ ApiAddPlugin({"/graph/a"}, {"urn:amp"})
    \/ ApiRemovePlugin({"/graph/a"})
    \/ ApiBypass({"/graph/a"})
    \/ ApiParamSet({"/graph/a"}, {"gain", "en"})
    \/ ApiPresetLoad({"/graph/a"}, {"pA"})
    \/ ApiConnect({<<"/graph", "capture_1">>}, {<<"/graph/a", "in">>})
    \/ ApiDisconnect({<<"/graph", "capture_1">>}, {<<"/graph/a", "in">>})
    \/ Respond
    \/ HmiAck

SpecOnce == InitOnce /\ [][NextOnce]_vars

\* the engine's answer to the request m: a success or a failure
AnswerOf(m, good) ==
    IF m.dt = "int" THEN (IF good THEN 0 ELSE -1) ELSE (IF good THEN 1 ELSE 0)

RECURSIVE Drain(_, _, _)
\* the host after the HMI has acknowledged and the engine has answered, up
\* to n times, whatever is pending
Drain(r, good, n) ==
    IF n = 0 \/ r.exc THEN r
    ELSE IF r.hmiq # <<>>
    THEN Drain(Call([r EXCEPT !.hmiq = Tail(@)], Head(r.hmiq).cb, 1), good, n - 1)
    ELSE IF r.writesock # 0 /\ r.streams[r.writesock].rd # NoReq
    THEN Drain(check_response(r, r.writesock,
                              AnswerOf(r.streams[r.writesock].rd, good)),
               good, n - 1)
    ELSE r

\* how often the callback of the API call name has run in r
Completions(r, name) == Len(SelectSeq(r.cbs, LAMBDA c : c[1] = name))

Edge1 == << <<"/graph", "capture_1">>, <<"/graph/a", "in">> >>

\* C37: with no request outstanding and the plugin /graph/a there, each call
\* of bypass, param_set, preset_load, connect, disconnect, remove_plugin and
\* add_plugin has run its callback exactly once when the engine has
\* answered (all successes or all failures) and the HMI has acknowledged
\* everything the call caused.
CompletesExactlyOnce ==
    (Settled /\ hmiq = <<>> /\ 0 \in DOMAIN plugins /\ knows_instance(mapper, "/graph/a"))
    => \A good \in BOOLEAN :
          /\ \A b \in BOOLEAN :
                Completions(Drain(bypass(H, "/graph/a", b, UserCb("bypass")), good, 8),
                            "bypass") = 1
          /\ \A sym \in {"gain", "en"}, v \in Values :
                Completions(Drain(param_set(H, <<"/graph/a", sym>>, v, UserCb("param_set")),
                                  good, 8), "param_set") = 1
          /\ Completions(Drain(preset_load(H, "/graph/a", "pA", UserCb("preset_load")),
                               good, 8), "preset_load") = 1
          /\ Completions(Drain(connect(H, Edge1[1], Edge1[2], UserCb("connect")),
                               good, 8), "connect") = 1
          /\ \A jack_ok \in BOOLEAN :
                Completions(Drain(disconnect(H, Edge1[1], Edge1[2], UserCb("disconnect"),
                                             jack_ok), good, 8), "disconnect") = 1
          /\ Completions(Drain(remove_plugin(H, "/graph/a", UserCb("remove_plugin")),
                               good, 8), "remove_plugin") = 1
          /\ Completions(Drain(add_plugin(H, "/graph/b", "urn:amp", UserCb("add_plugin")),
                               good, 8), "add_plugin") = 1

----------------------------------------------------------------------------
(* Edges of connections *)

InitEdges == InitHost(FALSE)

NextEdges ==
    \/ ApiAddPlugin({"/graph/a"}, {"urn:dly"})
    \/ ApiConnect({<<"/graph", "capture_1">>}, {<<"/graph/a", "in">>})
    \/ ApiLoad({"pb3"})
    \/ JackMidiPortAppeared
    \/ JackMidiPortDeleted
    \/ Respond

SpecEdges == InitEdges /\ [][NextEdges]_vars

\* C38: no edge is twice in connections.
NoEdgeTwice ==
    \A i, j \in 1..Len(connections) : connections[i] = connections[j] => i = j

----------------------------------------------------------------------------
(* Overlapping pedalboard loads *)

InitOverlap == InitHost(FALSE)

NextOverlap ==
    \/ HmiLoadBankPedalboard({0}, {0, 1})
    \/ EvMidiProgram({0, 1})
    \/ Respond
    \/ HmiAck

SpecOverlap == InitOverlap /\ [][NextOverlap]_vars

InstancesOf(h) == {get_instance(h.mapper, i) : i \in DOMAIN h.plugins}

BundleInstances(bundlepath) ==
    {BundleInfo(bundlepath).plugins[k].instance :
        k \in 1..Len(BundleInfo(bundlepath).plugins)}

BundleEdges(bundlepath) == Range(BundleInfo(bundlepath).connections)

\* C39: in every state the plugins and the connections of the session are
\* those of one bundle (or of none): plugins and edges of two bundles are
\* never there together, however loads from midi_program events and from
\* the HMI overlap.
OneBundleAtATime ==
    \E bundlepath \in BundlePaths :
        /\ InstancesOf(H) \subseteq BundleInstances(bundlepath)
        /\ Range(connections) \subseteq BundleEdges(bundlepath)

----------------------------------------------------------------------------
(* The pending HMI pedalboard *)

InitStuck == InitHost(FALSE)

\* the HMI asks for a pedalboard when none is pending, and once more while
\* one is
HmiMayAsk == IF next_hmi_pedalboard = <<>> \/ lastreq = <<>> THEN TRUE ELSE lastreq[3] = 0

NextStuck ==
    \/ HmiMayAsk /\ HmiLoadBankPedalboard({0}, {0, 1})
    \/ Respond
    \/ HmiAck
    \/ WriterClosed

\* weak fairness of HmiAck, with ENABLED <<HmiAck>>_vars written as the
\* guard of the action: a pending HMI call is acknowledged
FairHmiAck == []<>(hmiq = <<>>) \/ []<><<HmiAck>>_vars

\* the answers of the engine and of the HMI arrive; the close of the write
\* socket and the requests of the HMI are left to the environment
SpecStuck ==
    /\ InitStuck /\ [][NextStuck]_vars
    /\ WF_vars(Respond) /\ FairHmiAck

\* C40: whenever next_hmi_pedalboard is set while the write socket is open,
\* it is eventually None again.
PendingPedalboardCleared ==
    (next_hmi_pedalboard # <<>> /\ writesock # 0) ~> (next_hmi_pedalboard = <<>>)

====
